---------------------------- MODULE Spec2Model ----------------------------
(***************************************************************************)
(* A model of the realtime voice session engine of rig-experimental:       *)
(*   - providers/openai_realtime/realtime.rs : realtime_voice, the         *)
(*     outbound pump task, the inbound mapped stream, the event codec;     *)
(*   - providers/openai_realtime/client.rs   : the websocket handshake;    *)
(*   - examples/openai_rt_cpal.rs            : the capture pipeline, the   *)
(*     forwarding task and the playback jitter buffer (StreamingSource),   *)
(* and of the library beside it:                                           *)
(*   - agents/autonomous.rs, prompt_templating.rs, routing.rs;             *)
(*   - providers/candle/completion.rs : TokenOutputStream and              *)
(*     TextGeneration::run;                                                *)
(*   - providers/elevenlabs.rs        : the audio generation request.      *)
(*                                                                         *)
(* Option<T> is modelled as a sequence of length at most one: None is <<>> *)
(* and Some(x) is <<x>>.  A JSON value is a tagged record, so that values  *)
(* of different JSON types can be compared.                                *)
(***************************************************************************)
EXTENDS Integers, Sequences, FiniteSets, TLC

VARIABLES
    \* ---- realtime_voice and the outbound pump (realtime.rs 63-116)
    rv,            \* position of the realtime_voice call
    req,           \* the RealtimeVoiceRequest passed to the call
    handshake,     \* result of Client::initiate_websocket
    conn,          \* the websocket transport: "none", "open", "broken"
    senders,       \* holders of a live Sender<InputEvent>
    sending,       \* per producer: the event of a send().await in progress
    queue,         \* the mpsc channel buffer
    pump,          \* position of the spawned pump task
    inflight,      \* the message the pump took and is writing
    wire,          \* frames written to the websocket write half, in order
    accepted,      \* events whose send completed with Ok, in channel order
    nsend,         \* number of sends started (bounds the model)
    callerErrors,  \* error values handed to the caller so far
    \* ---- the inbound mapped stream (realtime.rs 87-107)
    stream,        \* the BoxStream handed to the caller
    wsIn,          \* items the read half will produce next
    polled,        \* items the stream has taken from the read half
    yielded,       \* ReceivedEvents yielded to the consumer
    \* ---- the playback jitter buffer (openai_rt_cpal.rs 59-72, 159-186)
    buffer,        \* VecDeque<i16> behind the tokio Mutex
    lock,          \* holder of the mutex: "free", "writer", "reader"
    wsamples,      \* samples the AudioDelta writer is about to append
    out,           \* results of the pulls made by the playback sink
    pushed,        \* every sample appended so far, in order
    ndelta,        \* number of AudioDelta events handled (bounds the model)
    \* ---- the capture pipeline (openai_rt_cpal.rs 39-53, 89-153)
    inputStream,   \* the cpal input Stream (owns the callback and audio_tx)
    handoff,       \* std::sync::mpsc channel callback -> worker
    worker,        \* position of the resampling worker task
    wchunk,        \* the encoded chunk the worker is sending
    chunks,        \* tokio mpsc channel(10) worker -> forwarding task
    fwd,           \* position of the forwarding task
    ncapture,      \* number of callback invocations (bounds the model)
    captured,      \* every chunk the callback has produced, in order
    \* ---- the calls of realtime_voice on one client (client.rs 29-44)
    calls,         \* per call: its handshake result and what it created
    upgrades,      \* number of websocket upgrade requests sent so far
    \* ---- the event codec applied to one value (realtime.rs 119-391)
    codecIn,       \* the typed event to encode, or the frame to decode
    codecStage,    \* how far the value has gone through the codec
    frame1,        \* the encoding of an outbound event
    typed1,        \* the first decoding: of frame1's session, or of the frame
    frame2,        \* the encoding of typed1
    typed2,        \* the decoding of frame2
    \* ---- AutonomousAgent::run (agents/autonomous.rs 42-62)
    max_turns,     \* the field max_turns
    delay_between_rounds,  \* the field delay_between_rounds
    turns_taken,   \* the local turns_taken
    rounds,        \* calls of agent.chat made so far
    run,           \* position of run
    prompt,        \* the argument prompt of run
    chat_history,  \* the field chat_history
    res,           \* the local res
    chatLog,       \* the calls of agent.chat: arguments and result, in order
    result,        \* what run returned, once it has
    \* ---- PromptTemplate (prompt_templating.rs 31-80)
    template,      \* the field template, as the sequence of its characters
    variables,     \* the field variables: the Context, a function on names
    rendered,      \* the result of render_to_string, once it has run
    \* ---- TokenOutputStream and TextGeneration::run
    \*      (providers/candle/completion.rs 19-99, 187-252)
    tokens,        \* TokenOutputStream.tokens
    prev_index,    \* TokenOutputStream.prev_index
    current_index, \* TokenOutputStream.current_index
    streamOut,     \* the result of the last call of next_token
    ncalls,        \* calls of next_token and clear made on the stream
    sample_len,    \* the argument sample_len of run
    gen,           \* position of run
    index,         \* the loop variable index
    string,        \* the local string, as a sequence of characters
    token_usage,   \* the local token_usage
    sampled,       \* the tokens the sampler has returned, in order
    response,      \* the CompletionResponse run returned, once it has
    \* ---- SemanticRouter and SemanticRouterWithAgents (routing.rs 25-105)
    routeThreshold,  \* the field threshold, in tenths
    store,         \* what store.top_n(query, 1) gives
    agents,        \* the tags of the field agents
    turns,         \* the turns of the RouterRequest
    routed,        \* the result of the prompt call, once made
    invoked,       \* the agent prompts made, in order
    \* ---- ElevenLabs audio generation (providers/elevenlabs.rs 169-333)
    ttsRequest,    \* the AudioGenerationRequest given to audio_generation
    ttsResult,     \* the result of the call, once made
    posts          \* the request bodies posted to the API, in order

outVars == <<rv, req, handshake, conn, senders, sending, queue, pump, inflight,
             wire, accepted, nsend, callerErrors>>
inVars  == <<stream, wsIn, polled, yielded>>
jitVars == <<buffer, lock, wsamples, out, pushed, ndelta>>
capVars == <<inputStream, handoff, worker, wchunk, chunks, fwd, ncapture>>
callVars == <<calls, upgrades>>
codecVars == <<codecIn, codecStage, frame1, typed1, frame2, typed2>>
agentVars == <<max_turns, delay_between_rounds, turns_taken, rounds, run,
               prompt, chat_history, res, chatLog, result>>
tmplVars == <<template, variables, rendered>>
genVars == <<tokens, prev_index, current_index, streamOut, ncalls, sample_len,
             gen, index, string, token_usage, sampled, response>>
routeVars == <<routeThreshold, store, agents, turns, routed, invoked>>
ttsVars == <<ttsRequest, ttsResult, posts>>
providerVars == <<genVars, routeVars, ttsVars>>
\* the realtime session, and what stands beside it
sessionVars == <<outVars, inVars, jitVars, capVars, callVars, captured>>
libVars == <<codecVars, agentVars, tmplVars, providerVars>>
vars    == <<sessionVars, libVars>>

-----------------------------------------------------------------------------
(* Bounds of the model *)

\* sends the caller starts on one connection
MaxEvents == 1
\* capacity of the outbound queue; the program's is 9999 (realtime.rs:78)
QueueCapacity == 2
\* encoded chunks waiting in the chunk channel when the session starts
MaxChunks == 1
\* AudioDelta events the playback loop handles
MaxDeltas == 2
\* pulls the playback sink makes
MaxPulls == 5
\* items the websocket read half produces on one connection
MaxFrames == 3
\* invocations of the capture callback
MaxCaptures == 3
\* capacity of the chunk channel; the program's is 10 (openai_rt_cpal.rs:39)
ChunkCapacity == 1
\* the capacity a bounded handoff between the callback and the worker
\* would have; the program's channel has none (openai_rt_cpal.rs:101)
HandoffCapacity == 1

\* the samples a capped jitter buffer would hold; the program's VecDeque
\* has no cap (openai_rt_cpal.rs:59)
JitterCapacity == 4
\* the highest cosine similarity score, in tenths
MaxScore == 3
\* the highest token id of the vocabulary
MaxToken == 3
\* calls made on one TokenOutputStream
MaxStreamCalls == 4
\* the highest sample_len given to TextGeneration::run
MaxSampleLen == 3
\* callback invocations whose chunks are kept in captured
MaxRecorded == 2

\* calls of realtime_voice made on one client
MaxCalls == 3

\* largest value of the field max_turns of an AutonomousAgent
MaxTurns == 6
\* largest value of the field delay_between_rounds, in seconds
MaxDelay == 2

\* pieces a template is put together from
MaxSegments == 3

\* the sequences over S of length at most n
BoundedSeq(S, n) == UNION {[1..k -> S] : k \in 0..n}

-----------------------------------------------------------------------------
(* Option and JSON values *)

None == <<>>
Some(x) == <<x>>
IsSome(o) == o # <<>>
Unwrap(o) == o[1]

\* Result<T, E>
Ok(x)  == [is |-> "Ok", v |-> x]
Err(e) == [is |-> "Err", v |-> e]
\* a panic in place of a result
Panic(m) == [is |-> "Panic", v |-> m]

JStr(s)  == [t |-> "str", v |-> s]
JNum(n)  == [t |-> "num", v |-> n]
JBool(b) == [t |-> "bool", v |-> b]
JNull    == [t |-> "null"]
JArr(s)  == [t |-> "arr", v |-> s]
JObj(f)  == [t |-> "obj", v |-> f]

\* The JSON object with the members of f and of g (disjoint key sets).
Merge(f, g) == [k \in (DOMAIN f) \cup (DOMAIN g) |->
                   IF k \in DOMAIN f THEN f[k] ELSE g[k]]
EmptyObj == [k \in {} |-> JNull]

-----------------------------------------------------------------------------
(* The typed events and their encoding (realtime.rs 119-174, 221-295) *)

SessionFields == {"modalities", "instructions", "voice", "turn_detection",
                  "input_audio_format", "output_audio_format",
                  "input_audio_transcription", "tools", "temperature", "speed"}

\* Session::new(): every field None.
SessionNew == [f \in SessionFields |-> None]
\* Session::voice(self, voice)
SessionVoice(s, voice) == [s EXCEPT !["voice"] = Some(voice)]
\* Session::modalities(self, arr)
SessionModalities(s, arr) == [s EXCEPT !["modalities"] = Some(arr)]

\* Session::turn_detection(self, cfg)
SessionTurnDetection(s, cfg) == [s EXCEPT !["turn_detection"] = Some(cfg)]
\* Session::input_audio_format(self, format)
SessionInputAudioFormat(s, format) ==
    [s EXCEPT !["input_audio_format"] = Some(format)]
\* Session::output_audio_format(self, format)
SessionOutputAudioFormat(s, format) ==
    [s EXCEPT !["output_audio_format"] = Some(format)]

\* TurnDetection::with_openai_defaults(); an f64 is written in tenths, so
\* the threshold 0.5 is 5
TurnDetectionWithOpenAiDefaults ==
    [kind |-> Some("ServerVad"), threshold |-> Some(5),
     prefix_padding_ms |-> Some(300), silence_duration_ms |-> Some(500),
     create_response |-> Some(TRUE)]
\* TurnDetection::empty()
TurnDetectionEmpty ==
    [kind |-> Some("ServerVad"), threshold |-> None,
     prefix_padding_ms |-> None, silence_duration_ms |-> None,
     create_response |-> None]
\* TurnDetection::threshold(self, threshold)
TurnDetectionThreshold(td, threshold) ==
    [td EXCEPT !.threshold = Some(threshold)]

\* Serialize for Modality and AudioFormat (rename_all = "lowercase").
ModalityToJson(m) == JStr(IF m = "Text" THEN "text" ELSE "audio")
\* AudioFormat without rename_all: the variant is written by its name
AudioFormatToJsonVariantName(a) == JStr("Pcm16")
AudioFormatToJson(a) == JStr("pcm16")

\* Serialize for TurnDetection: its fields are Options that carry no skip
\* attribute, so each of the five keys is always written, null when None.
TurnDetectionToJson(td) ==
    JObj([type |-> IF IsSome(td.kind) THEN JStr("server_vad") ELSE JNull,
          threshold |-> IF IsSome(td.threshold)
                          THEN JNum(Unwrap(td.threshold)) ELSE JNull,
          prefix_padding_ms |-> IF IsSome(td.prefix_padding_ms)
                                  THEN JNum(Unwrap(td.prefix_padding_ms))
                                  ELSE JNull,
          silence_duration_ms |-> IF IsSome(td.silence_duration_ms)
                                    THEN JNum(Unwrap(td.silence_duration_ms))
                                    ELSE JNull,
          create_response |-> IF IsSome(td.create_response)
                                THEN JBool(Unwrap(td.create_response))
                                ELSE JNull])

\* Serialize for one Session field that is Some(x).
SessionFieldToJson(f, x) ==
    CASE f = "modalities" -> JArr([i \in DOMAIN x |-> ModalityToJson(x[i])])
      [] f \in {"instructions", "voice"} -> JStr(x)
      [] f = "turn_detection" -> TurnDetectionToJson(x)
      [] f \in {"input_audio_format", "output_audio_format"} ->
            AudioFormatToJson(x)
      [] f = "input_audio_transcription" -> JObj([model |-> JStr(x.model)])
      [] f = "tools" -> JArr(x)
      [] f \in {"temperature", "speed"} -> JNum(x)

\* InputEvent::new(data): no correlation id.
InputEventNew(data) == [event_id |-> None, data |-> data]
\* InputEvent::with_id(self, id)
WithId(e, id) == [e EXCEPT !.event_id = Some(id)]
CommitAudio == InputEventNew([variant |-> "CommitAudioInputBuffer"])
ClearAudio  == InputEventNew([variant |-> "ClearAudioInputBuffer"])
AppendAudio(input) ==
    InputEventNew([variant |-> "AppendAudioInput", audio |-> input])
UpdateSession(session) ==
    InputEventNew([variant |-> "UpdateSession", session |-> session])

\* Serialize for Session: a field that is None is skipped
\* (skip_serializing_if = "Option::is_none" on every field).
SessionToJson(s) ==
    JObj([f \in {g \in SessionFields : IsSome(s[g])} |->
             SessionFieldToJson(f, Unwrap(s[f]))])

\* InputEventKind with the rename of commit on ClearAudioInputBuffer too
InputEventKindToJsonClearAsCommit(d) ==
    CASE d.variant \in {"CommitAudioInputBuffer", "ClearAudioInputBuffer"} ->
            [type |-> JStr("input_audio_buffer.commit")]
      [] d.variant = "AppendAudioInput" ->
            [type |-> JStr("input_audio_buffer.append"), audio |-> JStr(d.audio)]
      [] d.variant = "UpdateSession" ->
            [type |-> JStr("session.update"), session |-> SessionToJson(d.session)]

\* Serialize for InputEventKind: internally tagged by "type", with the
\* variant's own fields beside the tag.
InputEventKindToJson(d) ==
    CASE d.variant = "CommitAudioInputBuffer" ->
            [type |-> JStr("input_audio_buffer.commit")]
      [] d.variant = "ClearAudioInputBuffer" ->
            [type |-> JStr("input_audio_buffer.clear")]
      [] d.variant = "AppendAudioInput" ->
            [type |-> JStr("input_audio_buffer.append"), audio |-> JStr(d.audio)]
      [] d.variant = "UpdateSession" ->
            [type |-> JStr("session.update"), session |-> SessionToJson(d.session)]

\* serde_json::to_string(&message) for an InputEvent: event_id is skipped
\* when None, data is flattened into the same object.
InputEventToJson(e) ==
    JObj(Merge(IF IsSome(e.event_id)
                 THEN [event_id |-> JStr(Unwrap(e.event_id))]
                 ELSE EmptyObj,
               InputEventKindToJson(e.data)))

\* Message::Text(json)
TextMessage(json) == [kind |-> "Text", json |-> Some(json)]

-----------------------------------------------------------------------------
(* Inputs of the outbound side *)

\* the session of the example (openai_rt_cpal.rs 30-35)
SessionSage ==
    SessionTurnDetection(
       SessionModalities(
          SessionOutputAudioFormat(
             SessionInputAudioFormat(SessionVoice(SessionNew, "sage"),
                                     "Pcm16"),
             "Pcm16"),
          <<"Text", "Audio">>),
       TurnDetectionThreshold(TurnDetectionWithOpenAiDefaults, 3))

\* RealtimeVoiceRequest::new() and RealtimeVoiceRequest::with_session(session)
Requests == {[session |-> None], [session |-> Some(SessionSage)]}

\* the holders of a Sender: the caller, and the forwarding task of the
\* capture pipeline, which owns a clone
Producers == {"caller", "fwd"}

\* base64 chunks the capture pipeline produces ("AAA=" and "/38=")
Chunks == {<<"A", "A", "A", "=">>, <<"/", "3", "8", "=">>}

\* events the caller sends itself
CallerEvents == {CommitAudio, WithId(ClearAudio, "evt_1"),
                 UpdateSession(SessionVoice(SessionNew, "alloy"))}

-----------------------------------------------------------------------------
(* realtime_voice, the producers and the pump (realtime.rs 63-116) *)

\* The Receiver of the channel lives as long as the pump task runs.
ReceiverAlive == pump \in {"recv", "send"}

\* What one call of realtime_voice has made (realtime.rs 68-85): the
\* result of its handshake and, when that is Ok, the websocket that the
\* upgrade request numbered request gave, and the channel and the pump
\* task the call numbered call created for it.
CallRecord(outcome, request, call) ==
    [handshake |-> outcome,
     websocket |-> IF outcome = "ok" THEN Some(request) ELSE None,
     channel |-> IF outcome = "ok" THEN Some(call) ELSE None,
     pumpTask |-> IF outcome = "ok" THEN Some(call) ELSE None]

\* RealtimeVoiceCall on a client that keeps its websocket: a call after a
\* successful one sends no upgrade request and takes the websocket there is.
RealtimeVoiceCallReusing ==
    /\ Len(calls) < MaxCalls
    /\ IF \E i \in 1..Len(calls) : calls[i].handshake = "ok"
         THEN /\ calls' = Append(calls,
                     CallRecord("ok",
                        Unwrap(calls[CHOOSE i \in 1..Len(calls) :
                                        calls[i].handshake = "ok"].websocket),
                        Len(calls) + 1))
              /\ UNCHANGED upgrades
         ELSE /\ \E outcome \in {"ok", "err"} :
                    calls' = Append(calls, CallRecord(outcome, upgrades + 1,
                                                      Len(calls) + 1))
              /\ upgrades' = upgrades + 1
    /\ UNCHANGED <<outVars, inVars, jitVars, capVars, libVars, captured>>

\* realtime.rs 68-85 for a further call of realtime_voice on the same
\* client: initiate_websocket sends one upgrade request (client.rs 34-41);
\* its Ok gives this call a websocket, a channel and a pump task of its
\* own, its Err is unwrapped.
RealtimeVoiceCall ==
    /\ Len(calls) < MaxCalls
    /\ \E outcome \in {"ok", "err"} :
          calls' = Append(calls, CallRecord(outcome, upgrades + 1,
                                            Len(calls) + 1))
    /\ upgrades' = upgrades + 1
    /\ UNCHANGED <<outVars, inVars, jitVars, capVars, libVars, captured>>

\* realtime.rs 68-85: the handshake, then the channel and the pump task.
\* initiate_websocket returns Ok or Err; the Err is unwrapped.
RealtimeVoiceConnect ==
    /\ rv = "start"
    /\ Len(calls) < MaxCalls
    /\ \E outcome \in {"ok", "err"} :
          /\ handshake' = outcome
          /\ calls' = Append(calls, CallRecord(outcome, upgrades + 1,
                                               Len(calls) + 1))
          /\ upgrades' = upgrades + 1
          /\ IF outcome = "ok"
               THEN /\ rv' = "spawned"
                    /\ conn' = "open"
                    /\ pump' = "recv"
                    /\ senders' = {"rv"}
                    /\ stream' = "live"
               ELSE /\ rv' = "panicked"
                    /\ UNCHANGED <<conn, pump, senders, stream>>
    /\ UNCHANGED <<libVars, captured>>
    /\ UNCHANGED <<req, sending, queue, inflight, wire, accepted, nsend,
                   callerErrors, wsIn, polled, yielded, jitVars, capVars>>

\* realtime.rs 109-113: tx.send(update_session(session)).await.expect(..)
\* when the request carries a session.
RealtimeVoiceSendSession ==
    /\ rv = "spawned"
    /\ IsSome(req.session)
    /\ IF ~ReceiverAlive
         THEN /\ rv' = "panicked"
              /\ senders' = {}
              /\ UNCHANGED <<queue, accepted>>
         ELSE /\ Len(queue) < QueueCapacity
              /\ queue' = Append(queue, UpdateSession(Unwrap(req.session)))
              /\ accepted' = Append(accepted, UpdateSession(Unwrap(req.session)))
              /\ rv' = "enqueued"
              /\ UNCHANGED senders
    /\ UNCHANGED <<callVars, libVars, captured>>
    /\ UNCHANGED <<req, handshake, conn, sending, pump, inflight, wire, nsend,
                   callerErrors, inVars, jitVars, capVars>>

\* RealtimeVoiceReturn handing out a clone of tx and keeping tx itself
\* alive.
RealtimeVoiceReturnKeepingTx ==
    /\ rv = IF IsSome(req.session) THEN "enqueued" ELSE "spawned"
    /\ rv' = "returned"
    /\ senders' = {"rv", "caller"}
    /\ UNCHANGED <<callVars, libVars, captured>>
    /\ UNCHANGED <<req, handshake, conn, sending, queue, pump, inflight, wire,
                   accepted, nsend, callerErrors, inVars, jitVars, capVars>>

\* RealtimeVoiceReturn handing the Sender out before the session.update of
\* the request is enqueued.
RealtimeVoiceReturnEarly ==
    /\ rv \in {"spawned", "enqueued"}
    /\ rv' = "returned"
    /\ senders' = {"caller"}
    /\ UNCHANGED <<callVars, libVars, captured>>
    /\ UNCHANGED <<req, handshake, conn, sending, queue, pump, inflight, wire,
                   accepted, nsend, callerErrors, inVars, jitVars, capVars>>

\* realtime.rs 115: Ok((tx, mapped_stream)): the caller now owns the Sender.
RealtimeVoiceReturn ==
    /\ rv = IF IsSome(req.session) THEN "enqueued" ELSE "spawned"
    /\ rv' = "returned"
    /\ senders' = {"caller"}
    /\ UNCHANGED <<callVars, libVars, captured>>
    /\ UNCHANGED <<req, handshake, conn, sending, queue, pump, inflight, wire,
                   accepted, nsend, callerErrors, inVars, jitVars, capVars>>

\* openai_rt_cpal.rs 45: sender.clone() for the forwarding task.
SenderClone ==
    /\ rv = "returned"
    /\ "caller" \in senders
    /\ fwd = "none"
    /\ senders' = senders \cup {"fwd"}
    /\ fwd' = "recv"
    /\ UNCHANGED <<callVars, libVars, captured>>
    /\ UNCHANGED <<rv, req, handshake, conn, sending, queue, pump, inflight,
                   wire, accepted, nsend, callerErrors, inVars, jitVars,
                   inputStream, handoff, worker, wchunk, chunks, ncapture>>

\* A caller's sender.send(event) up to its await (openai_rt.rs 49-60).
CallerSendStart ==
    /\ rv = "returned"
    /\ "caller" \in senders
    /\ sending["caller"] = None
    /\ nsend < MaxEvents
    /\ \E e \in CallerEvents :
          sending' = [sending EXCEPT !["caller"] = Some(e)]
    /\ nsend' = nsend + 1
    /\ UNCHANGED <<callVars, libVars, captured>>
    /\ UNCHANGED <<rv, req, handshake, conn, senders, queue, pump, inflight,
                   wire, accepted, callerErrors, inVars, jitVars, capVars>>

\* CallerSendComplete as a try_send whose result is ignored: a full queue
\* drops the event instead of suspending the producer.
CallerSendCompleteDropping ==
    /\ IsSome(sending["caller"])
    /\ IF ReceiverAlive /\ Len(queue) < QueueCapacity
         THEN /\ queue' = Append(queue, Unwrap(sending["caller"]))
              /\ accepted' = Append(accepted, Unwrap(sending["caller"]))
         ELSE UNCHANGED <<queue, accepted>>
    /\ sending' = [sending EXCEPT !["caller"] = None]
    /\ UNCHANGED <<callVars, libVars, captured>>
    /\ UNCHANGED <<rv, req, handshake, conn, senders, pump, inflight, wire,
                   nsend, callerErrors, inVars, jitVars, capVars>>

\* Sender::send completes: Err(SendError) when the Receiver is gone, Ok once
\* the queue has room; with a full queue it stays suspended.
CallerSendComplete ==
    /\ IsSome(sending["caller"])
    /\ IF ~ReceiverAlive
         THEN /\ callerErrors' = callerErrors \cup {"SendError"}
              /\ UNCHANGED <<queue, accepted>>
         ELSE /\ Len(queue) < QueueCapacity
              /\ queue' = Append(queue, Unwrap(sending["caller"]))
              /\ accepted' = Append(accepted, Unwrap(sending["caller"]))
              /\ UNCHANGED callerErrors
    /\ sending' = [sending EXCEPT !["caller"] = None]
    /\ UNCHANGED <<callVars, libVars, captured>>
    /\ UNCHANGED <<rv, req, handshake, conn, senders, pump, inflight, wire,
                   nsend, inVars, jitVars, capVars>>

\* The caller drops its Sender.
CallerDropSender ==
    /\ rv = "returned"
    /\ "caller" \in senders
    /\ sending["caller"] = None
    /\ senders' = senders \ {"caller"}
    /\ UNCHANGED <<callVars, libVars, captured>>
    /\ UNCHANGED <<rv, req, handshake, conn, sending, queue, pump, inflight,
                   wire, accepted, nsend, callerErrors, inVars, jitVars,
                   capVars>>

\* the forwarding task committing the input buffer for each chunk
ForwarderRecvCommitting ==
    /\ fwd = "recv"
    /\ IF chunks # <<>>
         THEN /\ sending' = [sending EXCEPT !["fwd"] = Some(CommitAudio)]
              /\ chunks' = Tail(chunks)
              /\ fwd' = "send"
              /\ UNCHANGED senders
         ELSE /\ worker = "done"
              /\ fwd' = "done"
              /\ senders' = senders \ {"fwd"}
              /\ UNCHANGED <<sending, chunks>>
    /\ UNCHANGED <<callVars, libVars, captured>>
    /\ UNCHANGED <<rv, req, handshake, conn, queue, pump, inflight, wire,
                   accepted, nsend, callerErrors, inVars, jitVars,
                   inputStream, handoff, worker, wchunk, ncapture>>

\* openai_rt_cpal.rs 47: rx.recv().await in the forwarding task: the next
\* chunk, or None once the worker's raw_tx is gone and the channel is empty.
ForwarderRecv ==
    /\ fwd = "recv"
    /\ IF chunks # <<>>
         THEN /\ sending' = [sending EXCEPT
                               !["fwd"] = Some(AppendAudio(Head(chunks)))]
              /\ chunks' = Tail(chunks)
              /\ fwd' = "send"
              /\ UNCHANGED senders
         ELSE /\ worker = "done"
              /\ fwd' = "done"
              /\ senders' = senders \ {"fwd"}
              /\ UNCHANGED <<sending, chunks>>
    /\ UNCHANGED <<callVars, libVars, captured>>
    /\ UNCHANGED <<rv, req, handshake, conn, queue, pump, inflight, wire,
                   accepted, nsend, callerErrors, inVars, jitVars,
                   inputStream, handoff, worker, wchunk, ncapture>>

\* openai_rt_cpal.rs 48-51: sender_clone.send(..).await.unwrap()
ForwarderSend ==
    /\ fwd = "send"
    /\ IF ~ReceiverAlive
         THEN /\ fwd' = "panicked"
              /\ senders' = senders \ {"fwd"}
              /\ chunks' = <<>>
              /\ UNCHANGED <<queue, accepted>>
         ELSE /\ Len(queue) < QueueCapacity
              /\ queue' = Append(queue, Unwrap(sending["fwd"]))
              /\ accepted' = Append(accepted, Unwrap(sending["fwd"]))
              /\ fwd' = "recv"
              /\ UNCHANGED <<senders, chunks>>
    /\ sending' = [sending EXCEPT !["fwd"] = None]
    /\ UNCHANGED <<callVars, libVars, captured>>
    /\ UNCHANGED <<rv, req, handshake, conn, pump, inflight, wire, nsend,
                   callerErrors, inVars, jitVars, inputStream, handoff,
                   worker, wchunk, ncapture>>

\* PumpRecv ending the loop as soon as every Sender is dropped, whatever
\* is still queued.
PumpRecvClosedFirst ==
    /\ pump = "recv"
    /\ IF senders = {}
         THEN /\ pump' = "done"
              /\ queue' = <<>>
              /\ UNCHANGED inflight
         ELSE /\ queue # <<>>
              /\ inflight' = Some(Head(queue))
              /\ queue' = Tail(queue)
              /\ pump' = "send"
    /\ UNCHANGED <<callVars, libVars, captured>>
    /\ UNCHANGED <<rv, req, handshake, conn, senders, sending, wire, accepted,
                   nsend, callerErrors, inVars, jitVars, capVars>>

\* PumpRecv taking the newest queued message instead of the oldest.
PumpRecvNewest ==
    /\ pump = "recv"
    /\ IF queue # <<>>
         THEN /\ inflight' = Some(queue[Len(queue)])
              /\ queue' = SubSeq(queue, 1, Len(queue) - 1)
              /\ pump' = "send"
         ELSE /\ senders = {}
              /\ pump' = "done"
              /\ UNCHANGED <<inflight, queue>>
    /\ UNCHANGED <<callVars, libVars, captured>>
    /\ UNCHANGED <<rv, req, handshake, conn, senders, sending, wire, accepted,
                   nsend, callerErrors, inVars, jitVars, capVars>>

\* realtime.rs 81: rx.recv().await in the pump: the oldest queued message,
\* or None once the queue is empty and every Sender is dropped.
PumpRecv ==
    /\ pump = "recv"
    /\ IF queue # <<>>
         THEN /\ inflight' = Some(Head(queue))
              /\ queue' = Tail(queue)
              /\ pump' = "send"
         ELSE /\ senders = {}
              /\ pump' = "done"
              /\ UNCHANGED <<inflight, queue>>
    /\ UNCHANGED <<callVars, libVars, captured>>
    /\ UNCHANGED <<rv, req, handshake, conn, senders, sending, wire, accepted,
                   nsend, callerErrors, inVars, jitVars, capVars>>

\* realtime.rs 82-83: serialize and ws_tx.send(Message::Text(json)).await,
\* unwrapped: a transport error panics the task, which drops the Receiver
\* and with it whatever is still queued.
PumpSend ==
    /\ pump = "send"
    /\ IF conn = "open"
         THEN /\ wire' = Append(wire,
                           TextMessage(InputEventToJson(Unwrap(inflight))))
              /\ pump' = "recv"
              /\ UNCHANGED queue
         ELSE /\ pump' = "panicked"
              /\ queue' = <<>>
              /\ UNCHANGED wire
    /\ inflight' = None
    /\ UNCHANGED <<callVars, libVars, captured>>
    /\ UNCHANGED <<rv, req, handshake, conn, senders, sending, accepted, nsend,
                   callerErrors, inVars, jitVars, capVars>>

\* The transport fails mid-session.
TransportFail ==
    /\ conn = "open"
    /\ conn' = "broken"
    /\ UNCHANGED <<callVars, libVars, captured>>
    /\ UNCHANGED <<rv, req, handshake, senders, sending, queue, pump,
                   inflight, wire, accepted, nsend, callerErrors, inVars,
                   jitVars, capVars>>

-----------------------------------------------------------------------------
(* Decoding of inbound frames (realtime.rs 176-216, 221-254, 300-391) *)

HasStr(o, k) == k \in DOMAIN o /\ o[k].t = "str"
HasNum(o, k) == k \in DOMAIN o /\ o[k].t = "num" /\ o[k].v >= 0
\* a key of an Option field: absent and null both read as None
IsUnset(o, k) == k \notin DOMAIN o \/ o[k].t = "null"

\* Deserialize for TurnDetection succeeds on v
ValidTurnDetection(v) ==
    /\ v.t = "obj"
    /\ IsUnset(v.v, "type") \/ v.v["type"] = JStr("server_vad")
    /\ IsUnset(v.v, "threshold") \/ v.v["threshold"].t = "num"
    /\ IsUnset(v.v, "prefix_padding_ms") \/ HasNum(v.v, "prefix_padding_ms")
    /\ IsUnset(v.v, "silence_duration_ms")
          \/ HasNum(v.v, "silence_duration_ms")
    /\ IsUnset(v.v, "create_response") \/ v.v["create_response"].t = "bool"

TurnDetectionFromJson(v) ==
    [kind |-> IF IsUnset(v.v, "type") THEN None ELSE Some("ServerVad"),
     threshold |-> IF IsUnset(v.v, "threshold") THEN None
                   ELSE Some(v.v["threshold"].v),
     prefix_padding_ms |-> IF IsUnset(v.v, "prefix_padding_ms") THEN None
                           ELSE Some(v.v["prefix_padding_ms"].v),
     silence_duration_ms |-> IF IsUnset(v.v, "silence_duration_ms") THEN None
                             ELSE Some(v.v["silence_duration_ms"].v),
     create_response |-> IF IsUnset(v.v, "create_response") THEN None
                         ELSE Some(v.v["create_response"].v)]

\* the non-null JSON value v deserializes as Session field f
ValidSessionField(f, v) ==
    CASE f = "modalities" ->
            /\ v.t = "arr"
            /\ \A i \in DOMAIN v.v : v.v[i] \in {JStr("text"), JStr("audio")}
      [] f \in {"instructions", "voice"} -> v.t = "str"
      [] f = "turn_detection" -> ValidTurnDetection(v)
      [] f \in {"input_audio_format", "output_audio_format"} ->
            v = JStr("pcm16")
      [] f = "input_audio_transcription" ->
            v.t = "obj" /\ HasStr(v.v, "model")
      [] f = "tools" -> v.t = "arr"
      [] f \in {"temperature", "speed"} -> v.t = "num"

SessionFieldFromJson(f, v) ==
    CASE f = "modalities" ->
            [i \in DOMAIN v.v |-> IF v.v[i] = JStr("text") THEN "Text"
                                  ELSE "Audio"]
      [] f \in {"instructions", "voice"} -> v.v
      [] f = "turn_detection" -> TurnDetectionFromJson(v)
      [] f \in {"input_audio_format", "output_audio_format"} -> "Pcm16"
      [] f = "input_audio_transcription" -> [model |-> v.v["model"].v]
      [] f = "tools" -> v.v
      [] f \in {"temperature", "speed"} -> v.v

\* Deserialize for Session: Some(session), or None on an error.  Keys that
\* are no field of Session are ignored.
SessionFromJson(v) ==
    IF /\ v.t = "obj"
       /\ \A f \in SessionFields :
             IsUnset(v.v, f) \/ ValidSessionField(f, v.v[f])
      THEN Some([f \in SessionFields |->
                   IF IsUnset(v.v, f) THEN None
                   ELSE Some(SessionFieldFromJson(f, v.v[f]))])
      ELSE None

\* Deserialize for SessionEvent (tag "type") from the object o
SessionEventFromJson(o) ==
    IF /\ HasStr(o, "type")
       /\ o["type"].v \in {"session.created", "session.updated"}
       /\ "session" \in DOMAIN o
       /\ IsSome(SessionFromJson(o["session"]))
      THEN Some([variant |-> IF o["type"].v = "session.created"
                               THEN "SessionCreated" ELSE "SessionUpdated",
                 session |-> Unwrap(SessionFromJson(o["session"]))])
      ELSE None

\* Deserialize for ReceivedItemEventKind (tag "type") from the object o
ReceivedItemEventKindFromJson(o) ==
    IF HasStr(o, "type") /\ o["type"].v = "response.audio.delta"
          /\ HasStr(o, "delta")
      THEN Some([variant |-> "AudioDelta", delta |-> o["delta"].v])
      ELSE IF HasStr(o, "type") /\ o["type"].v = "response.audio.done"
             THEN Some([variant |-> "AudioDone"])
             ELSE None

\* the four fields of the Item variant are present in o
HasItemFields(o) ==
    /\ HasStr(o, "item_id")
    /\ HasStr(o, "response_id")
    /\ HasNum(o, "output_index")
    /\ HasNum(o, "content_index")

\* ReceivedEventKind whose Item variant takes a default for a field that
\* is absent (#[serde(default)] on the four fields)
ReceivedEventKindFromJsonDefaulting(o) ==
    IF IsSome(SessionEventFromJson(o))
      THEN Some([variant |-> "Session",
                 event |-> Unwrap(SessionEventFromJson(o))])
      ELSE IF IsSome(ReceivedItemEventKindFromJson(o))
             THEN Some([variant |-> "Item",
                        item_id |-> IF HasStr(o, "item_id")
                                      THEN o["item_id"].v ELSE "",
                        response_id |-> IF HasStr(o, "response_id")
                                          THEN o["response_id"].v ELSE "",
                        output_index |-> IF HasNum(o, "output_index")
                                           THEN o["output_index"].v ELSE 0,
                        content_index |-> IF HasNum(o, "content_index")
                                            THEN o["content_index"].v ELSE 0,
                        data |-> Unwrap(ReceivedItemEventKindFromJson(o))])
             ELSE None

\* ReceivedEventKind that selects the Item variant by its four fields and
\* tries the Session variant on the other objects only
ReceivedEventKindFromJsonByItemFields(o) ==
    IF HasItemFields(o)
      THEN IF IsSome(ReceivedItemEventKindFromJson(o))
             THEN Some([variant |-> "Item",
                        item_id |-> o["item_id"].v,
                        response_id |-> o["response_id"].v,
                        output_index |-> o["output_index"].v,
                        content_index |-> o["content_index"].v,
                        data |-> Unwrap(ReceivedItemEventKindFromJson(o))])
             ELSE None
      ELSE IF IsSome(SessionEventFromJson(o))
             THEN Some([variant |-> "Session",
                        event |-> Unwrap(SessionEventFromJson(o))])
             ELSE None

\* Deserialize for ReceivedEventKind (untagged): the Session variant is
\* tried first, the Item variant second.
ReceivedEventKindFromJson(o) ==
    IF IsSome(SessionEventFromJson(o))
      THEN Some([variant |-> "Session",
                 event |-> Unwrap(SessionEventFromJson(o))])
      ELSE IF /\ HasStr(o, "item_id")
              /\ HasStr(o, "response_id")
              /\ HasNum(o, "output_index")
              /\ HasNum(o, "content_index")
              /\ IsSome(ReceivedItemEventKindFromJson(o))
             THEN Some([variant |-> "Item",
                        item_id |-> o["item_id"].v,
                        response_id |-> o["response_id"].v,
                        output_index |-> o["output_index"].v,
                        content_index |-> o["content_index"].v,
                        data |-> Unwrap(ReceivedItemEventKindFromJson(o))])
             ELSE None

\* serde_json::from_str::<ReceivedEvent>(&txt).ok(), txt given by its parse
\* as JSON: None when txt is no JSON text.
ReceivedEventFromStr(json) ==
    IF /\ IsSome(json)
       /\ Unwrap(json).t = "obj"
       /\ IsUnset(Unwrap(json).v, "event_id")
             \/ HasStr(Unwrap(json).v, "event_id")
       /\ IsSome(ReceivedEventKindFromJson(Unwrap(json).v))
      THEN Some([event_id |-> IF IsUnset(Unwrap(json).v, "event_id")
                                THEN None
                                ELSE Some(Unwrap(json).v["event_id"].v),
                 data |-> Unwrap(ReceivedEventKindFromJson(Unwrap(json).v))])
      ELSE None

\* realtime.rs 89-105: the closure of filter_map on one item of ws_rx
FilterMapItem(item) ==
    IF item.kind = "Text" THEN ReceivedEventFromStr(item.json) ELSE None

-----------------------------------------------------------------------------
(* The inbound stream (realtime.rs 87-107) and what the server may send *)

DeltaOneTwoThree == <<"A", "Q", "A", "C", "A", "A", "M", "A">>

ItemContext == [item_id |-> JStr("item_1"), response_id |-> JStr("resp_1"),
                output_index |-> JNum(0), content_index |-> JNum(0)]

\* {"type":"session.created","event_id":"evt_a","session":{"id":"sess_1",
\*  "voice":"sage","modalities":["text","audio"],"turn_detection":null}}
FrameSessionCreated ==
    TextMessage(JObj([type |-> JStr("session.created"),
                      event_id |-> JStr("evt_a"),
                      session |-> JObj([id |-> JStr("sess_1"),
                                        voice |-> JStr("sage"),
                                        modalities |-> JArr(<<JStr("text"),
                                                              JStr("audio")>>),
                                        turn_detection |-> JNull])]))

\* {"type":"session.updated","session":{"input_audio_format":"pcm16"}}
FrameSessionUpdated ==
    TextMessage(JObj([type |-> JStr("session.updated"),
                      session |-> JObj([input_audio_format |-> JStr("pcm16")])]))

\* {"type":"response.audio.delta","event_id":"evt_b","item_id":"item_1",
\*  "response_id":"resp_1","output_index":0,"content_index":0,
\*  "delta":"AQACAAMA"}
FrameAudioDelta ==
    TextMessage(JObj(Merge(ItemContext,
                           [type |-> JStr("response.audio.delta"),
                            event_id |-> JStr("evt_b"),
                            delta |-> JStr(DeltaOneTwoThree)])))

FrameAudioDone ==
    TextMessage(JObj(Merge(ItemContext,
                           [type |-> JStr("response.audio.done")])))

\* an event kind this client does not know
FrameResponseCreated ==
    TextMessage(JObj([type |-> JStr("response.created"),
                      event_id |-> JStr("evt_c")]))

\* an audio delta without its item_id
FrameDeltaNoItemId ==
    TextMessage(JObj([type |-> JStr("response.audio.delta"),
                      response_id |-> JStr("resp_1"),
                      output_index |-> JNum(0), content_index |-> JNum(0),
                      delta |-> JStr(DeltaOneTwoThree)]))

\* a text frame that is no JSON text
FrameNotJson == [kind |-> "Text", json |-> None]

\* an event kind this client does not know, with the fields of an item:
\* {"type":"response.audio_transcript.delta","item_id":"item_1",..,
\*  "delta":"AQACAAMA"}
FrameTranscriptDelta ==
    TextMessage(JObj(Merge(ItemContext,
                           [type |-> JStr("response.audio_transcript.delta"),
                            delta |-> JStr(DeltaOneTwoThree)])))

\* the frame f without the field lacking
FrameWithout(f, lacking) ==
    TextMessage(JObj([k \in DOMAIN Unwrap(f.json).v \ {lacking} |->
                         Unwrap(f.json).v[k]]))

\* the audio frames without one of the four fields of the Item variant
FramesLackingOneField ==
    {FrameWithout(f, lacking) :
        f \in {FrameAudioDelta, FrameAudioDone}, lacking \in DOMAIN ItemContext}

ParseableFrames == {FrameSessionCreated, FrameSessionUpdated, FrameAudioDelta,
                    FrameAudioDone}
UnparseableFrames ==
    {FrameResponseCreated, FrameDeltaNoItemId, FrameNotJson,
     FrameTranscriptDelta, FrameWithout(FrameAudioDone, "output_index")}
       \cup {FrameWithout(FrameAudioDelta, lacking) :
                lacking \in DOMAIN ItemContext}

\* Ok(Message::Binary | Ping | Pong | Close) and Err(err)
OtherItems == {[kind |-> "Binary"], [kind |-> "Ping"], [kind |-> "Pong"],
               [kind |-> "Close"], [kind |-> "Err"]}

\* the read half returns None: the connection is closed
EndOfStream == [kind |-> "End"]

InboundItems == ParseableFrames \cup UnparseableFrames \cup OtherItems

\* The server sends a frame, or the connection ends.
WsDeliver ==
    /\ stream = "live"
    /\ Len(polled) + Len(wsIn) < MaxFrames
    /\ wsIn # <<>> => wsIn[Len(wsIn)] # EndOfStream
    /\ \E item \in InboundItems \cup {EndOfStream} :
          wsIn' = Append(wsIn, item)
    /\ UNCHANGED <<callVars, libVars, captured>>
    /\ UNCHANGED <<stream, polled, yielded, outVars, jitVars, capVars>>

\* StreamPoll with map_while in place of filter_map: the first item that
\* yields no event ends the stream.
StreamPollMapWhile ==
    /\ stream = "live"
    /\ wsIn # <<>>
    /\ polled' = Append(polled, Head(wsIn))
    /\ wsIn' = Tail(wsIn)
    /\ IF IsSome(FilterMapItem(Head(wsIn)))
         THEN /\ yielded' = yielded \o FilterMapItem(Head(wsIn))
              /\ UNCHANGED stream
         ELSE /\ stream' = "ended"
              /\ UNCHANGED yielded
    /\ UNCHANGED <<callVars, libVars, captured>>
    /\ UNCHANGED <<outVars, jitVars, capVars>>

\* realtime.rs 88-107: the consumer polls mapped_stream, which takes the
\* next item of ws_rx: an event is yielded for it or it is skipped; the
\* stream ends when ws_rx does.
StreamPoll ==
    /\ stream = "live"
    /\ wsIn # <<>>
    /\ polled' = Append(polled, Head(wsIn))
    /\ wsIn' = Tail(wsIn)
    /\ IF Head(wsIn) = EndOfStream
         THEN /\ stream' = "ended"
              /\ UNCHANGED yielded
         ELSE /\ yielded' = yielded \o FilterMapItem(Head(wsIn))
              /\ UNCHANGED stream
    /\ UNCHANGED <<callVars, libVars, captured>>
    /\ UNCHANGED <<outVars, jitVars, capVars>>

\* what the server sends of its own accord on a session: session.created
\* when the connection is up, session.updated in answer to a session.update
ServerFrames == {FrameSessionCreated, FrameSessionUpdated}

\* The server sends a session frame on the open connection.
ServerSend ==
    /\ stream = "live"
    /\ conn = "open"
    /\ Len(polled) + Len(wsIn) < MaxFrames
    /\ wsIn # <<>> => wsIn[Len(wsIn)] # EndOfStream
    /\ \E item \in ServerFrames : wsIn' = Append(wsIn, item)
    /\ UNCHANGED <<callVars, libVars, captured>>
    /\ UNCHANGED <<stream, polled, yielded, outVars, jitVars, capVars>>

\* The transport fails mid-session and the read half reports it: the next
\* item of ws_rx is Err(err).
ReadHalfFail ==
    /\ stream = "live"
    /\ conn = "open"
    /\ Len(polled) + Len(wsIn) < MaxFrames
    /\ wsIn # <<>> => wsIn[Len(wsIn)] # EndOfStream
    /\ conn' = "broken"
    /\ wsIn' = Append(wsIn, [kind |-> "Err"])
    /\ UNCHANGED <<callVars, libVars, captured>>
    /\ UNCHANGED <<rv, req, handshake, senders, sending, queue, pump,
                   inflight, wire, accepted, nsend, callerErrors, stream,
                   polled, yielded, jitVars, capVars>>

\* The read half comes to its end: the peer has closed the connection, or
\* the transport gives nothing more after its error.  Nothing can be
\* written to a connection that is closed.
ReadHalfEnd ==
    /\ stream = "live"
    /\ Len(polled) + Len(wsIn) < MaxFrames
    /\ wsIn # <<>> => wsIn[Len(wsIn)] # EndOfStream
    /\ conn' = IF conn = "open" THEN "closed" ELSE conn
    /\ wsIn' = Append(wsIn, EndOfStream)
    /\ UNCHANGED <<callVars, libVars, captured>>
    /\ UNCHANGED <<rv, req, handshake, senders, sending, queue, pump,
                   inflight, wire, accepted, nsend, callerErrors, stream,
                   polled, yielded, jitVars, capVars>>

-----------------------------------------------------------------------------
(* The event codec on its own (realtime.rs 119-216): an outbound event is  *)
(* encoded and the Session of its frame decoded; an inbound frame is       *)
(* decoded, encoded again and decoded again                                *)

\* Serialize for SessionEvent: internally tagged by "type"
SessionEventToJson(ev) ==
    [type |-> JStr(IF ev.variant = "SessionCreated" THEN "session.created"
                   ELSE "session.updated"),
     session |-> SessionToJson(ev.session)]

\* Serialize for ReceivedItemEventKind: internally tagged by "type"
ReceivedItemEventKindToJson(d) ==
    IF d.variant = "AudioDelta"
      THEN [type |-> JStr("response.audio.delta"), delta |-> JStr(d.delta)]
      ELSE [type |-> JStr("response.audio.done")]

\* Serialize for ReceivedEventKind (untagged): the members of the variant,
\* the data of an Item flattened beside its four fields
ReceivedEventKindToJson(d) ==
    IF d.variant = "Session"
      THEN SessionEventToJson(d.event)
      ELSE Merge([item_id |-> JStr(d.item_id),
                  response_id |-> JStr(d.response_id),
                  output_index |-> JNum(d.output_index),
                  content_index |-> JNum(d.content_index)],
                 ReceivedItemEventKindToJson(d.data))

\* ReceivedEvent whose event_id carries #[serde(skip_serializing)]
ReceivedEventToJsonNoId(e) == JObj(ReceivedEventKindToJson(e.data))

\* Serialize for ReceivedEvent: event_id is skipped when None, data is
\* flattened into the same object
ReceivedEventToJson(e) ==
    JObj(Merge(IF IsSome(e.event_id)
                 THEN [event_id |-> JStr(Unwrap(e.event_id))]
                 ELSE EmptyObj,
               ReceivedEventKindToJson(e.data)))

\* the sessions the builder methods of Session produce from these values
CodecSessions ==
    {[SessionNew EXCEPT !["voice"] = v, !["input_audio_format"] = f,
                        !["turn_detection"] = td, !["modalities"] = md,
                        !["temperature"] = tp] :
        v \in {None, Some("sage")},
        f \in {None, Some("Pcm16")},
        td \in {None, Some(TurnDetectionEmpty),
                Some(TurnDetectionWithOpenAiDefaults)},
        md \in {None, Some(<<"Text", "Audio">>)},
        tp \in {None, Some(8)}}

\* the outbound events, with and without a correlation id
CodecEvents ==
    LET plain == {CommitAudio, ClearAudio}
                    \cup {AppendAudio(c) : c \in Chunks}
                    \cup {UpdateSession(ss) : ss \in CodecSessions}
    IN  plain \cup {WithId(e, "evt_1") : e \in plain}

\* {"type":"session.updated","event_id":"evt_d","session":{"id":"sess_1",
\*  "voice":"sage","temperature":0.8,"turn_detection":{"type":"server_vad",
\*  "threshold":0.5,"prefix_padding_ms":300,"silence_duration_ms":null}}}
FrameSessionUpdatedFull ==
    TextMessage(JObj([type |-> JStr("session.updated"),
                      event_id |-> JStr("evt_d"),
                      session |->
                         JObj([id |-> JStr("sess_1"),
                               voice |-> JStr("sage"),
                               temperature |-> JNum(8),
                               turn_detection |->
                                  JObj([type |-> JStr("server_vad"),
                                        threshold |-> JNum(5),
                                        prefix_padding_ms |-> JNum(300),
                                        silence_duration_ms |-> JNull])])]))

\* a session.updated frame that carries the four fields of an item too
FrameSessionUpdatedWithItem ==
    TextMessage(JObj(Merge(ItemContext,
                           [type |-> JStr("session.updated"),
                            session |-> JObj([voice |-> JStr("sage")])])))

\* a session.created frame that carries the four fields of an item too
FrameSessionCreatedWithItem ==
    TextMessage(JObj(Merge(ItemContext,
                           [type |-> JStr("session.created"),
                            event_id |-> JStr("evt_e"),
                            session |-> JObj([modalities |->
                                                 JArr(<<JStr("audio")>>)])])))

\* a session.updated frame whose session does not deserialize
FrameSessionUpdatedBadVoice ==
    TextMessage(JObj([type |-> JStr("session.updated"),
                      session |-> JObj([voice |-> JNum(1)])]))

CodecFrames ==
    ParseableFrames \cup UnparseableFrames
       \cup {FrameSessionUpdatedFull, FrameSessionUpdatedWithItem,
             FrameSessionCreatedWithItem, FrameSessionUpdatedBadVoice}

CodecInputs ==
    {[dir |-> "out", event |-> e] : e \in CodecEvents}
       \cup {[dir |-> "in", frame |-> w] : w \in CodecFrames}

\* serde_json::to_string(&message) on an InputEvent (realtime.rs 81)
EncodeInputEvent ==
    /\ codecStage = "start"
    /\ codecIn.dir = "out"
    /\ frame1' = Some(InputEventToJson(codecIn.event))
    /\ codecStage' = "encoded"
    /\ UNCHANGED <<codecIn, typed1, frame2, typed2>>
    /\ UNCHANGED <<sessionVars, agentVars, tmplVars, providerVars>>

\* Deserialize for Session on the member session of a session.update frame
DecodeSession ==
    /\ codecStage = "encoded"
    /\ codecIn.dir = "out"
    /\ "session" \in DOMAIN Unwrap(frame1).v
    /\ typed1' = SessionFromJson(Unwrap(frame1).v["session"])
    /\ codecStage' = "decoded"
    /\ UNCHANGED <<codecIn, frame1, frame2, typed2>>
    /\ UNCHANGED <<sessionVars, agentVars, tmplVars, providerVars>>

\* serde_json::from_str::<ReceivedEvent>(&txt).ok() (realtime.rs 101)
DecodeReceivedEvent ==
    /\ codecStage = "start"
    /\ codecIn.dir = "in"
    /\ typed1' = ReceivedEventFromStr(codecIn.frame.json)
    /\ codecStage' = "decoded"
    /\ UNCHANGED <<codecIn, frame1, frame2, typed2>>
    /\ UNCHANGED <<sessionVars, agentVars, tmplVars, providerVars>>

\* Serialize for ReceivedEvent on the decoded event
EncodeReceivedEvent ==
    /\ codecStage = "decoded"
    /\ codecIn.dir = "in"
    /\ IsSome(typed1)
    /\ frame2' = Some(ReceivedEventToJson(Unwrap(typed1)))
    /\ codecStage' = "reencoded"
    /\ UNCHANGED <<codecIn, frame1, typed1, typed2>>
    /\ UNCHANGED <<sessionVars, agentVars, tmplVars, providerVars>>

\* Deserialize for ReceivedEvent on the frame encoded from the event
DecodeReceivedEventAgain ==
    /\ codecStage = "reencoded"
    /\ typed2' = ReceivedEventFromStr(frame2)
    /\ codecStage' = "redecoded"
    /\ UNCHANGED <<codecIn, frame1, typed1, frame2>>
    /\ UNCHANGED <<sessionVars, agentVars, tmplVars, providerVars>>

-----------------------------------------------------------------------------
(* AutonomousAgent::run (agents/autonomous.rs 42-62).  run is the position *)
(* of the call: "new" before it, "loop" at the head of the loop,           *)
(* "exit_condition" and "tick" at the two awaits after chat, then          *)
(* "returned" (Ok), "failed" (the Err of chat) or "panicked".              *)

\* what run may be asked
Prompts == {"p1", "p2"}

\* what chat_history may hold before run
Histories == {<<>>, <<"m1">>}

\* what agent.chat may answer
Responses == {"r1", "r2"}

\* the record of one call of agent.chat(prompt, chat_history): what it was
\* given and what it gave
ChatCall(p, history, outcome) ==
    [prompt |-> p, chat_history |-> history, result |-> outcome]

\* lines 43-45: res starts as the prompt and turns_taken at max_turns;
\* tokio::time::interval panics on a period of zero
AgentRun ==
    /\ run = "new"
    /\ res' = prompt
    /\ turns_taken' = max_turns
    /\ run' = IF delay_between_rounds = 0 THEN "panicked" ELSE "loop"
    /\ UNCHANGED <<max_turns, delay_between_rounds, rounds, prompt,
                   chat_history, chatLog, result>>
    /\ UNCHANGED <<sessionVars, codecVars, tmplVars, providerVars>>

\* AgentRound of an agent that keeps the conversation: the prompt and the
\* response are pushed onto chat_history after each chat
AgentRoundRecording ==
    /\ run = "loop"
    /\ IF turns_taken > max_turns
         THEN /\ run' = "returned"
              /\ result' = Some(Ok(res))
              /\ UNCHANGED <<turns_taken, rounds, res, chatLog, chat_history>>
         ELSE /\ turns_taken' = turns_taken + 1
              /\ rounds' = rounds + 1
              /\ \/ \E r \in Responses :
                       /\ chatLog' = Append(chatLog,
                                            ChatCall(res, chat_history, Ok(r)))
                       /\ chat_history' = chat_history \o <<res, r>>
                       /\ res' = r
                       /\ run' = "exit_condition"
                       /\ UNCHANGED result
                 \/ /\ chatLog' = Append(chatLog,
                                         ChatCall(res, chat_history,
                                                  Err("chat")))
                    /\ run' = "failed"
                    /\ result' = Some(Err("chat"))
                    /\ UNCHANGED <<res, chat_history>>
    /\ UNCHANGED <<max_turns, delay_between_rounds, prompt>>
    /\ UNCHANGED <<sessionVars, codecVars, tmplVars, providerVars>>

\* lines 47-52 and 61: the check against max_turns, which leaves the loop
\* for Ok(res), then one round: the increment and
\* agent.chat(&res, self.chat_history.clone()), whose Ok is the new res and
\* whose Err leaves run through `?`
AgentRound ==
    /\ run = "loop"
    /\ IF turns_taken > max_turns
         THEN /\ run' = "returned"
              /\ result' = Some(Ok(res))
              /\ UNCHANGED <<turns_taken, rounds, res, chatLog>>
         ELSE /\ turns_taken' = turns_taken + 1
              /\ rounds' = rounds + 1
              /\ \/ \E r \in Responses :
                       /\ chatLog' = Append(chatLog,
                                            ChatCall(res, chat_history, Ok(r)))
                       /\ res' = r
                       /\ run' = "exit_condition"
                       /\ UNCHANGED result
                 \/ /\ chatLog' = Append(chatLog,
                                         ChatCall(res, chat_history,
                                                  Err("chat")))
                    /\ run' = "failed"
                    /\ result' = Some(Err("chat"))
                    /\ UNCHANGED res
    /\ UNCHANGED <<max_turns, delay_between_rounds, prompt, chat_history>>
    /\ UNCHANGED <<sessionVars, codecVars, tmplVars, providerVars>>

\* lines 54-56 and 61: (self.exit_condition)(&res).await, whose true leaves
\* the loop for Ok(res)
AgentExitCondition ==
    /\ run = "exit_condition"
    /\ \E exit \in BOOLEAN :
          IF exit THEN /\ run' = "returned"
                       /\ result' = Some(Ok(res))
                  ELSE /\ run' = "tick"
                       /\ UNCHANGED result
    /\ UNCHANGED <<max_turns, delay_between_rounds, turns_taken, rounds,
                   prompt, chat_history, res, chatLog>>
    /\ UNCHANGED <<sessionVars, codecVars, tmplVars, providerVars>>

\* line 58: interval.tick().await
AgentTick ==
    /\ run = "tick"
    /\ run' = "loop"
    /\ UNCHANGED <<max_turns, delay_between_rounds, turns_taken, rounds,
                   prompt, chat_history, res, chatLog, result>>
    /\ UNCHANGED <<sessionVars, codecVars, tmplVars, providerVars>>

-----------------------------------------------------------------------------
(* PromptTemplate (prompt_templating.rs 26-80).  A string is the sequence  *)
(* of its characters; the Context is a function from names to values.      *)

RECURSIVE Flatten(_)
Flatten(segs) == IF segs = <<>> THEN <<>>
                 ELSE Head(segs) \o Flatten(Tail(segs))

OpenTag  == <<"{", "{">>
CloseTag == <<"}", "}">>

\* the characters of an identifier of the template language
IdentChars == {"u", "s", "e", "r", "k", "H", "l", "o"}

IsIdent(name) ==
    name # <<>> /\ \A i \in DOMAIN name : name[i] \in IdentChars

RECURSIVE TrimLeft(_)
TrimLeft(str) == IF str # <<>> /\ Head(str) = " " THEN TrimLeft(Tail(str))
                 ELSE str
RECURSIVE TrimRight(_)
TrimRight(str) ==
    IF str # <<>> /\ str[Len(str)] = " "
      THEN TrimRight(SubSeq(str, 1, Len(str) - 1))
      ELSE str
Trim(str) == TrimRight(TrimLeft(str))

\* the positions at which str holds a closing }}
ClosePositions(str) ==
    {i \in 1..(Len(str) - 1) : SubSeq(str, i, i + 1) = CloseTag}

Min(S) == CHOOSE x \in S : \A y \in S : x <= y

\* tera's escape_html, on the characters it replaces
EscapeChar(c) ==
    CASE c = "<" -> <<"&", "l", "t", ";">>
      [] c = ">" -> <<"&", "g", "t", ";">>
      [] OTHER -> <<c>>
EscapeHtml(str) == Flatten([i \in DOMAIN str |-> EscapeChar(str[i])])

RenderOk(text) == [ok |-> TRUE, text |-> text]
RenderErr == [ok |-> FALSE]

\* tera::Tera::one_off(tpl, ctx, autoescape) on a template of text and
\* {{ name }} expressions: text is copied, an expression is replaced by the
\* value of its variable, which is not rendered again; an expression that
\* is not closed, that is no identifier, or whose variable is not in the
\* context is an Err
RECURSIVE TeraOneOff(_, _, _)
TeraOneOff(tpl, ctx, autoescape) ==
    IF tpl = <<>> THEN RenderOk(<<>>)
    ELSE IF Len(tpl) >= 2 /\ SubSeq(tpl, 1, 2) = OpenTag
      THEN LET inner == SubSeq(tpl, 3, Len(tpl))
           IN  IF ClosePositions(inner) = {} THEN RenderErr
               ELSE LET close == Min(ClosePositions(inner))
                        name == Trim(SubSeq(inner, 1, close - 1))
                        rest == TeraOneOff(SubSeq(inner, close + 2,
                                                  Len(inner)),
                                           ctx, autoescape)
                    IN  IF IsIdent(name) /\ name \in DOMAIN ctx /\ rest.ok
                          THEN RenderOk((IF autoescape
                                           THEN EscapeHtml(ctx[name])
                                           ELSE ctx[name]) \o rest.text)
                          ELSE RenderErr
      ELSE LET rest == TeraOneOff(Tail(tpl), ctx, autoescape)
           IN  IF rest.ok THEN RenderOk(<<Head(tpl)>> \o rest.text)
               ELSE RenderErr

\* Context::insert(k, v): the value of k is set, or replaced
ContextInsert(ctx, k, v) ==
    [x \in (DOMAIN ctx) \cup {k} |-> IF x = k THEN v ELSE ctx[x]]

StrUser  == <<"u", "s", "e", "r">>
StrWorld == <<"w", "o", "r", "l", "d">>
StrHello == <<"H", "e", "l", "l", "o", ",", " ">>

\* text without braces, and {{ name }} expressions
TextPieces == {StrHello, <<"!">>}
PlaceholderName ==
    [piece \in {OpenTag \o StrUser \o CloseTag,
                OpenTag \o <<" ">> \o StrUser \o <<" ">> \o CloseTag,
                OpenTag \o <<"k">> \o CloseTag} |->
        IF piece = OpenTag \o <<"k">> \o CloseTag THEN <<"k">> ELSE StrUser]
PlaceholderPieces == DOMAIN PlaceholderName
\* an opening {{ that no }} closes
OddPieces == {OpenTag}

Templates ==
    {Flatten(segs) :
        segs \in BoundedSeq(TextPieces \cup PlaceholderPieces \cup OddPieces,
                            MaxSegments)}
Names == {StrUser, <<"k">>}
Values == {StrWorld, <<"<", "b", ">">>, OpenTag \o <<"k">> \o CloseTag}

\* with_variable(self, k, v), in the builder chain before the rendering
WithVariable ==
    /\ rendered = None
    /\ \E k \in Names, v \in Values :
          variables' = ContextInsert(variables, k, v)
    /\ UNCHANGED <<template, rendered>>
    /\ UNCHANGED <<sessionVars, codecVars, agentVars, providerVars>>

\* render_to_string with autoescape on
RenderToStringAutoescape ==
    /\ rendered = None
    /\ rendered' = Some(TeraOneOff(template, variables, TRUE))
    /\ UNCHANGED <<template, variables>>
    /\ UNCHANGED <<sessionVars, codecVars, agentVars, providerVars>>

\* render_to_string(&self): one_off(..).unwrap(); an Err is the panic of
\* unwrap
RenderToString ==
    /\ rendered = None
    /\ rendered' = Some(TeraOneOff(template, variables, FALSE))
    /\ UNCHANGED <<template, variables>>
    /\ UNCHANGED <<sessionVars, codecVars, agentVars, providerVars>>

-----------------------------------------------------------------------------
(* SemanticRouter and SemanticRouterWithAgents (routing.rs 14-105).  A      *)
(* cosine similarity score is counted in tenths.                            *)

\* the tags of the routes in the store
Tags == {"billing", "support"}

\* what store.top_n(query, 1) may give: an error, no result, or the one
\* result with its score and its SemanticRoute
StoreResults ==
    {Err("store"), Ok(<<>>)}
       \cup {Ok(<<[score |-> sc, tag |-> t]>>) : sc \in 0..MaxScore, t \in Tags}

\* SemanticRouterPrompt with `<=` where the code has `<`
SemanticRouterPromptAbove(top, thr) ==
    IF top.is = "Err" THEN None
    ELSE IF top.v = <<>> THEN None
    ELSE IF top.v[1].score <= thr THEN None
    ELSE Some(top.v[1].tag)

\* routing.rs 40-51: SemanticRouter::prompt on what top_n gave
SemanticRouterPrompt(top, thr) ==
    IF top.is = "Err" THEN None
    ELSE IF top.v = <<>> THEN None
    ELSE IF top.v[1].score < thr THEN None
    ELSE Some(top.v[1].tag)

\* a call of SemanticRouter::prompt
RouterPrompt ==
    /\ routed = None
    /\ routed' = Some([by |-> "SemanticRouter",
                       value |-> SemanticRouterPrompt(store, routeThreshold)])
    /\ UNCHANGED <<routeThreshold, store, agents, turns, invoked>>
    /\ UNCHANGED <<sessionVars, codecVars, agentVars, tmplVars>>
    /\ UNCHANGED <<genVars, ttsVars>>

\* routing.rs 74-105: SemanticRouterWithAgents::prompt: `?` on the store's
\* error, Ok(None) without a result or below the threshold, a panic without
\* an agent for the tag, then the agent's prompt, unwrapped
RouterWithAgentsPrompt ==
    /\ routed = None
    /\ IF store.is = "Err"
         THEN /\ routed' = Some([by |-> "SemanticRouterWithAgents",
                                 value |-> Err(store.v)])
              /\ UNCHANGED invoked
         ELSE IF store.v = <<>>
         THEN /\ routed' = Some([by |-> "SemanticRouterWithAgents",
                                 value |-> Ok(None)])
              /\ UNCHANGED invoked
         ELSE IF store.v[1].score < routeThreshold
         THEN /\ routed' = Some([by |-> "SemanticRouterWithAgents",
                                 value |-> Ok(None)])
              /\ UNCHANGED invoked
         ELSE IF store.v[1].tag \notin agents
         THEN /\ routed' = Some([by |-> "SemanticRouterWithAgents",
                                 value |-> Panic("no agent")])
              /\ UNCHANGED invoked
         ELSE /\ invoked' = Append(invoked,
                                   [tag |-> store.v[1].tag,
                                    multi_turn |-> IF turns > 0
                                                     THEN Some(turns)
                                                     ELSE None])
              /\ \E answered \in BOOLEAN :
                    routed' = Some([by |-> "SemanticRouterWithAgents",
                                    value |-> IF answered
                                                THEN Ok(Some("answer"))
                                                ELSE Panic("unwrap")])
    /\ UNCHANGED <<routeThreshold, store, agents, turns>>
    /\ UNCHANGED <<sessionVars, codecVars, agentVars, tmplVars>>
    /\ UNCHANGED <<genVars, ttsVars>>

-----------------------------------------------------------------------------
(* TokenOutputStream and TextGeneration::run                                *)
(* (providers/candle/completion.rs 19-99, 187-252).  A token is its id, a   *)
(* text the sequence of its characters.  Indices are Rust's: the slice      *)
(* tokens[a..b] is SubSeq(tokens, a + 1, b).                                *)

\* the id of "</s>" in the vocabulary (completion.rs 197-200)
EosToken == 0

Vocabulary == 0..MaxToken

\* the text of one token: a special token has none (decode skips it), the
\* others a letter, a space, or two letters
Piece(token) ==
    CASE token = EosToken -> <<>>
      [] token = 1 -> <<"a">>
      [] token = 2 -> <<" ">>
      [] OTHER -> <<"b", "c">>

\* tokenizer.decode(ids, true) when it succeeds
Decode(ids) == Flatten([i \in DOMAIN ids |-> Piece(ids[i])])

\* char::is_alphanumeric on the characters of the pieces
IsAlphanumeric(c) == c \in {"a", "b", "c"}

\* which decode of a next_token call fails, if any: the one of the previous
\* text (line 53) or the one of the text with the new token (line 56)
DecodeFailures == {"none", "prev_text", "text"}

\* the fields of a stream and the result of a call on it
StreamAfter(toks, prev, current, outcome) ==
    [tokens |-> toks, prev_index |-> prev, current_index |-> current,
     result |-> outcome]

\* NextToken whose emitting branch sets prev_index to tokens.len()
NextTokenPrevAtEnd(ts, token, failure) ==
    IF ts.tokens # <<>> /\ failure = "prev_text"
      THEN StreamAfter(ts.tokens, ts.prev_index, ts.current_index,
                       Err("cannot decode"))
      ELSE LET prev_text == IF ts.tokens = <<>> THEN <<>>
                            ELSE Decode(SubSeq(ts.tokens, ts.prev_index + 1,
                                               ts.current_index))
               longer == Append(ts.tokens, token)
               text == Decode(SubSeq(longer, ts.prev_index + 1, Len(longer)))
           IN  IF failure = "text"
                 THEN StreamAfter(longer, ts.prev_index, ts.current_index,
                                  Err("cannot decode"))
                 ELSE IF /\ Len(text) > Len(prev_text)
                         /\ IsAlphanumeric(text[Len(text)])
                        THEN StreamAfter(longer, Len(longer),
                                         ts.current_index,
                                         Ok(Some(SubSeq(text,
                                                        Len(prev_text) + 1,
                                                        Len(text)))))
                        ELSE StreamAfter(longer, ts.prev_index,
                                         ts.current_index, Ok(None))

\* completion.rs 48-65: next_token(token) on the stream ts: the previous
\* text is decoded first and its Err returned through `?`, then the token is
\* longer and the text decoded; new text that ends alphanumeric is emitted
\* and moves the two indices
NextToken(ts, token, failure) ==
    IF ts.tokens # <<>> /\ failure = "prev_text"
      THEN StreamAfter(ts.tokens, ts.prev_index, ts.current_index,
                       Err("cannot decode"))
      ELSE LET prev_text == IF ts.tokens = <<>> THEN <<>>
                            ELSE Decode(SubSeq(ts.tokens, ts.prev_index + 1,
                                               ts.current_index))
               longer == Append(ts.tokens, token)
               text == Decode(SubSeq(longer, ts.prev_index + 1, Len(longer)))
           IN  IF failure = "text"
                 THEN StreamAfter(longer, ts.prev_index, ts.current_index,
                                  Err("cannot decode"))
                 ELSE IF /\ Len(text) > Len(prev_text)
                         /\ IsAlphanumeric(text[Len(text)])
                        THEN StreamAfter(longer, ts.current_index,
                                         Len(longer),
                                         Ok(Some(SubSeq(text,
                                                        Len(prev_text) + 1,
                                                        Len(text)))))
                        ELSE StreamAfter(longer, ts.prev_index,
                                         ts.current_index, Ok(None))

\* the TokenOutputStream as it stands
TokenStream == StreamAfter(tokens, prev_index, current_index, None)

\* a call of next_token on the stream
StreamNextToken ==
    /\ gen = "idle"
    /\ ncalls < MaxStreamCalls
    /\ \E token \in Vocabulary, failure \in DecodeFailures :
          LET after == NextToken(TokenStream, token, failure)
          IN  /\ tokens' = after.tokens
              /\ prev_index' = after.prev_index
              /\ current_index' = after.current_index
              /\ streamOut' = Some([call |-> "next_token", token |-> token,
                                    result |-> after.result])
    /\ ncalls' = ncalls + 1
    /\ UNCHANGED <<sample_len, gen, index, string, token_usage, sampled,
                   response>>
    /\ UNCHANGED <<sessionVars, codecVars, agentVars, tmplVars>>
    /\ UNCHANGED <<routeVars, ttsVars>>

\* completion.rs 95-99: clear
StreamClear ==
    /\ gen = "idle"
    /\ ncalls < MaxStreamCalls
    /\ tokens' = <<>>
    /\ prev_index' = 0
    /\ current_index' = 0
    /\ streamOut' = Some([call |-> "clear"])
    /\ ncalls' = ncalls + 1
    /\ UNCHANGED <<sample_len, gen, index, string, token_usage, sampled,
                   response>>
    /\ UNCHANGED <<sessionVars, codecVars, agentVars, tmplVars>>
    /\ UNCHANGED <<routeVars, ttsVars>>

\* completion.rs 187-204: run(prompt, sample_len) up to the loop: the
\* stream is cleared, string is empty and token_usage is 0
GenerationRun ==
    /\ gen = "new"
    /\ tokens' = <<>>
    /\ prev_index' = 0
    /\ current_index' = 0
    /\ streamOut' = Some([call |-> "clear"])
    /\ ncalls' = ncalls + 1
    /\ string' = <<>>
    /\ token_usage' = 0
    /\ index' = 0
    /\ gen' = "loop"
    /\ UNCHANGED <<sample_len, sampled, response>>
    /\ UNCHANGED <<sessionVars, codecVars, agentVars, tmplVars>>
    /\ UNCHANGED <<routeVars, ttsVars>>

\* completion.rs 206-244: one turn of `for index in 0..sample_len`: a token
\* is sampled; the end-of-sequence token sets token_usage and breaks, any
\* other token goes to next_token, whose Err is the panic of unwrap and
\* whose text is pushed onto string
GenerationSample ==
    /\ gen = "loop"
    /\ index < sample_len
    /\ \E next_token \in Vocabulary, failure \in DecodeFailures :
          /\ sampled' = Append(sampled, next_token)
          /\ IF next_token = EosToken
               THEN /\ token_usage' = index + 1
                    /\ gen' = "done"
                    /\ UNCHANGED <<tokens, prev_index, current_index,
                                   streamOut, ncalls, string, index>>
               ELSE LET after == NextToken(TokenStream, next_token, failure)
                    IN  /\ tokens' = after.tokens
                        /\ prev_index' = after.prev_index
                        /\ current_index' = after.current_index
                        /\ streamOut' = Some([call |-> "next_token",
                                              token |-> next_token,
                                              result |-> after.result])
                        /\ ncalls' = ncalls + 1
                        /\ UNCHANGED token_usage
                        /\ IF after.result.is = "Err"
                             THEN /\ gen' = "panicked"
                                  /\ UNCHANGED <<string, index>>
                             ELSE /\ string' = string \o
                                       (IF IsSome(after.result.v)
                                          THEN Unwrap(after.result.v)
                                          ELSE <<>>)
                                  /\ index' = index + 1
                                  /\ UNCHANGED gen
    /\ UNCHANGED <<sample_len, response>>
    /\ UNCHANGED <<sessionVars, codecVars, agentVars, tmplVars>>
    /\ UNCHANGED <<routeVars, ttsVars>>

\* completion.rs 206, 246-250: the loop is over, by break or because index
\* has reached sample_len, and run returns the CompletionResponse
GenerationReturn ==
    /\ \/ gen = "done"
       \/ gen = "loop" /\ index = sample_len
    /\ response' = Some([response |-> string, token_usage |-> token_usage])
    /\ gen' = "returned"
    /\ UNCHANGED <<tokens, prev_index, current_index, streamOut, ncalls,
                   sample_len, index, string, token_usage, sampled>>
    /\ UNCHANGED <<sessionVars, codecVars, agentVars, tmplVars>>
    /\ UNCHANGED <<routeVars, ttsVars>>

-----------------------------------------------------------------------------
(* ElevenLabs audio generation (providers/elevenlabs.rs 54-67, 130-333).    *)
(* A speed and a voice setting are counted in tenths.                       *)

\* the names serde gives the variants of AudioOutputFormat (elevenlabs.rs
\* 232-273); two of the ten stand for all
AudioOutputFormats == {"mp3_22050_32", "pcm_8000"}

VoiceSettingNumbers == {"stability", "similarity_boost", "style", "speed"}
VoiceSettingFields == VoiceSettingNumbers \cup {"use_speaker_boost"}

\* VoiceSettings::default(): every field None
VoiceSettingsDefault == [f \in VoiceSettingFields |-> None]

\* Deserialize for VoiceSettings succeeds on v
ValidVoiceSettings(v) ==
    /\ v.t = "obj"
    /\ \A f \in VoiceSettingNumbers : IsUnset(v.v, f) \/ v.v[f].t = "num"
    /\ IsUnset(v.v, "use_speaker_boost")
          \/ v.v["use_speaker_boost"].t = "bool"

\* Deserialize for VoiceSettings on the object o
VoiceSettingsFromJson(o) ==
    [f \in VoiceSettingFields |->
        IF IsUnset(o, f) THEN None ELSE Some(o[f].v)]

\* serde_json::from_value::<ElevenLabsParams>(v), on the fields
\* output_format, voice_settings and seed: output_format is required, the
\* two others are Options
ElevenLabsParamsFromJson(v) ==
    IF /\ v.t = "obj"
       /\ HasStr(v.v, "output_format")
       /\ v.v["output_format"].v \in AudioOutputFormats
       /\ IsUnset(v.v, "voice_settings")
             \/ ValidVoiceSettings(v.v["voice_settings"])
       /\ IsUnset(v.v, "seed") \/ HasNum(v.v, "seed")
      THEN Ok([output_format |-> v.v["output_format"].v,
               voice_settings |->
                  IF IsUnset(v.v, "voice_settings") THEN None
                  ELSE Some(VoiceSettingsFromJson(v.v["voice_settings"].v)),
               seed |-> IF IsUnset(v.v, "seed") THEN None
                        ELSE Some(v.v["seed"].v)])
      ELSE Err("JsonError")

\* TryFrom that sets the speed only where the params give none
ElevenLabsTryFromKeepingSpeed(model_name, request) ==
    IF request.additional_params = None
      THEN Err("ProviderError")
      ELSE LET params ==
                  ElevenLabsParamsFromJson(Unwrap(request.additional_params))
           IN  IF params.is = "Err"
                 THEN params
                 ELSE LET settings ==
                             IF IsSome(params.v.voice_settings)
                               THEN Unwrap(params.v.voice_settings)
                               ELSE VoiceSettingsDefault
                      IN  Ok([text |-> request.text,
                              voice_id |-> request.voice,
                              model_id |-> model_name,
                              params |->
                                 [params.v EXCEPT
                                    !.voice_settings =
                                       Some([settings EXCEPT
                                               !["speed"] =
                                                  IF IsSome(settings["speed"])
                                                    THEN settings["speed"]
                                                    ELSE Some(request.speed)])
                                 ]])

\* elevenlabs.rs 169-203: TryFrom<(String, AudioGenerationRequest)>
ElevenLabsTryFrom(model_name, request) ==
    IF request.additional_params = None
      THEN Err("ProviderError")
      ELSE LET params ==
                  ElevenLabsParamsFromJson(Unwrap(request.additional_params))
           IN  IF params.is = "Err"
                 THEN params
                 ELSE LET settings ==
                             IF IsSome(params.v.voice_settings)
                               THEN Unwrap(params.v.voice_settings)
                               ELSE VoiceSettingsDefault
                      IN  Ok([text |-> request.text,
                              voice_id |-> request.voice,
                              model_id |-> model_name,
                              params |->
                                 [params.v EXCEPT
                                    !.voice_settings =
                                       Some([settings EXCEPT
                                               !["speed"] =
                                                  Some(request.speed)])]])

\* the values of the key voice_settings in additional_params, when present
VoiceSettingsGiven ==
    {JNull, JObj(EmptyObj), JObj([stability |-> JNum(5)]),
     JObj([speed |-> JNum(9)]),
     JObj([stability |-> JNum(5), speed |-> JNum(9),
           use_speaker_boost |-> JBool(TRUE)]),
     JObj([use_speaker_boost |-> JNum(1)])}

\* the additional_params a caller may give: objects with or without the
\* required output_format, with one that is no variant, with or without
\* voice_settings and seed
AdditionalParams ==
    {JObj(Merge(of, Merge(vs, sd))) :
        of \in {EmptyObj, [output_format |-> JStr("wav")]}
                 \cup {[output_format |-> JStr(f)] : f \in AudioOutputFormats},
        vs \in {EmptyObj} \cup {[voice_settings |-> g] : g \in VoiceSettingsGiven},
        sd \in {EmptyObj, [seed |-> JNum(7)]}}

\* the generic AudioGenerationRequests
AudioGenerationRequests ==
    [text : {"hello"}, voice : {"voice_1"}, speed : {10, 12},
     additional_params : {None} \cup {Some(p) : p \in AdditionalParams}]

\* elevenlabs.rs 311-333: audio_generation: the conversion, whose Err is
\* returned through `?`, then the POST, whose send is unwrapped and whose
\* body is read with `?`
AudioGeneration ==
    /\ ttsResult = None
    /\ IsSome(ttsRequest)
    /\ LET converted == ElevenLabsTryFrom("eleven_v3", Unwrap(ttsRequest))
       IN  IF converted.is = "Err"
             THEN /\ ttsResult' = Some(converted)
                  /\ UNCHANGED posts
             ELSE /\ posts' = Append(posts, converted.v)
                  /\ \E outcome \in {"bytes", "no bytes", "not sent"} :
                        ttsResult' =
                           Some(CASE outcome = "bytes" -> Ok("bytes")
                                  [] outcome = "no bytes" -> Err("HttpError")
                                  [] outcome = "not sent" -> Panic("unwrap"))
    /\ UNCHANGED ttsRequest
    /\ UNCHANGED <<sessionVars, codecVars, agentVars, tmplVars>>
    /\ UNCHANGED <<genVars, routeVars>>

-----------------------------------------------------------------------------
(* The playback jitter buffer (openai_rt_cpal.rs 59-72, 159-186).  A base64 *)
(* string is the sequence of its characters.                                *)

B64Chars ==
    <<"A", "B", "C", "D", "E", "F", "G", "H", "I", "J", "K", "L", "M",
      "N", "O", "P", "Q", "R", "S", "T", "U", "V", "W", "X", "Y", "Z",
      "a", "b", "c", "d", "e", "f", "g", "h", "i", "j", "k", "l", "m",
      "n", "o", "p", "q", "r", "s", "t", "u", "v", "w", "x", "y", "z",
      "0", "1", "2", "3", "4", "5", "6", "7", "8", "9", "+", "/">>

\* the 6-bit value of a base64 character; the padding "=" counts as 0
B64Val(c) == IF c = "=" THEN 0
             ELSE (CHOOSE i \in 1..64 : B64Chars[i] = c) - 1

\* the bytes of one group of four characters: three, less one per "="
B64Group(q) ==
    LET n == B64Val(q[1]) * 262144 + B64Val(q[2]) * 4096
             + B64Val(q[3]) * 64 + B64Val(q[4])
        pad == Cardinality({i \in 3..4 : q[i] = "="})
    IN  SubSeq(<<n \div 65536, (n \div 256) % 256, n % 256>>, 1, 3 - pad)

\* BASE64_STANDARD.decode(delta) for a well-formed string
RECURSIVE Base64Decode(_)
Base64Decode(str) ==
    IF str = <<>> THEN <<>>
    ELSE B64Group(SubSeq(str, 1, 4)) \o Base64Decode(SubSeq(str, 5, Len(str)))

\* one i16 from two bytes, least significant first
I16FromBytes(lo, hi) ==
    LET u == lo + 256 * hi IN IF u >= 32768 THEN u - 65536 ELSE u

\* bytemuck::cast_slice::<u8, i16>(&bytes)
CastSlice(bytes) ==
    [i \in 1..(Len(bytes) \div 2) |->
        I16FromBytes(bytes[2 * i - 1], bytes[2 * i])]

\* the base64 characters of one group of one to three bytes
B64Quad(b) ==
    LET n == b[1] * 65536 + (IF Len(b) >= 2 THEN b[2] * 256 ELSE 0)
             + (IF Len(b) = 3 THEN b[3] ELSE 0)
    IN  <<B64Chars[(n \div 262144) + 1],
          B64Chars[((n \div 4096) % 64) + 1],
          IF Len(b) >= 2 THEN B64Chars[((n \div 64) % 64) + 1] ELSE "=",
          IF Len(b) = 3 THEN B64Chars[(n % 64) + 1] ELSE "=">>

\* BASE64_STANDARD.encode(bytes)
RECURSIVE Base64Encode(_)
Base64Encode(bytes) ==
    IF bytes = <<>> THEN <<>>
    ELSE IF Len(bytes) <= 3 THEN B64Quad(bytes)
    ELSE B64Quad(SubSeq(bytes, 1, 3))
            \o Base64Encode(SubSeq(bytes, 4, Len(bytes)))

\* bytemuck::cast_slice::<i16, u8>(&pcm): two bytes per sample, least
\* significant first
RECURSIVE BytesOfI16(_)
BytesOfI16(pcm) ==
    IF pcm = <<>> THEN <<>>
    ELSE LET u == IF Head(pcm) < 0 THEN Head(pcm) + 65536 ELSE Head(pcm)
         IN  <<u % 256, u \div 256>> \o BytesOfI16(Tail(pcm))

\* the delta strings of the AudioDelta events the server sends: the
\* samples [1,2,3], [0], [-1] and [4,5]
Deltas == {<<"A", "Q", "A", "C", "A", "A", "M", "A">>,
           <<"A", "A", "A", "=">>,
           <<"/", "/", "8", "=">>,
           <<"B", "A", "A", "F", "A", "A", "=", "=">>}

\* openai_rt_cpal.rs 64-69: an AudioDelta arrives and is decoded; the loop
\* is then at buffer.lock().await.
WriterDecode ==
    /\ wsamples = None
    /\ ndelta < MaxDeltas
    /\ \E delta \in Deltas :
          wsamples' = Some(CastSlice(Base64Decode(delta)))
    /\ ndelta' = ndelta + 1
    /\ UNCHANGED <<callVars, libVars, captured>>
    /\ UNCHANGED <<buffer, lock, out, pushed, outVars, inVars, capVars>>

\* openai_rt_cpal.rs 70: buffer.lock().await resumes once the mutex is free.
WriterLock ==
    /\ IsSome(wsamples)
    /\ lock = "free"
    /\ lock' = "writer"
    /\ UNCHANGED <<callVars, libVars, captured>>
    /\ UNCHANGED <<buffer, wsamples, out, pushed, ndelta, outVars, inVars,
                   capVars>>

\* openai_rt_cpal.rs 71-72: guard.extend(samples), then the guard is dropped.
WriterExtend ==
    /\ lock = "writer"
    /\ buffer' = buffer \o Unwrap(wsamples)
    /\ pushed' = pushed \o Unwrap(wsamples)
    /\ wsamples' = None
    /\ lock' = "free"
    /\ UNCHANGED <<callVars, libVars, captured>>
    /\ UNCHANGED <<out, ndelta, outVars, inVars, capVars>>

\* one pull as recorded in out: what next() returned, where it came from,
\* and how many samples had been appended by then
Pull(ret, src) == [ret |-> ret, src |-> src, total |-> Len(pushed)]

\* StreamingSourceTryLock with a blocking acquisition: the pull waits for
\* the mutex.
StreamingSourceLockBlocking ==
    /\ lock = "free"
    /\ Len(out) < MaxPulls
    /\ lock' = "reader"
    /\ UNCHANGED <<callVars, libVars, captured>>
    /\ UNCHANGED <<buffer, wsamples, out, pushed, ndelta, outVars, inVars,
                   capVars>>

\* openai_rt_cpal.rs 183: self.buffer.try_lock().ok()? : the guard, or an
\* immediate return of None when the mutex is held.
StreamingSourceTryLock ==
    /\ lock # "reader"
    /\ Len(out) < MaxPulls
    /\ IF lock = "free"
         THEN /\ lock' = "reader"
              /\ UNCHANGED out
         ELSE /\ out' = Append(out, Pull(None, "contended"))
              /\ UNCHANGED lock
    /\ UNCHANGED <<callVars, libVars, captured>>
    /\ UNCHANGED <<buffer, wsamples, pushed, ndelta, outVars, inVars, capVars>>

\* StreamingSourcePop taking the newest sample.
StreamingSourcePopBack ==
    /\ lock = "reader"
    /\ IF buffer # <<>>
         THEN /\ out' = Append(out, Pull(Some(buffer[Len(buffer)]), "buffer"))
              /\ buffer' = SubSeq(buffer, 1, Len(buffer) - 1)
         ELSE /\ out' = Append(out, Pull(Some(0), "silence"))
              /\ UNCHANGED buffer
    /\ lock' = "free"
    /\ UNCHANGED <<callVars, libVars, captured>>
    /\ UNCHANGED <<wsamples, pushed, ndelta, outVars, inVars, capVars>>

\* openai_rt_cpal.rs 184: guard.pop_front().or(Some(0)), then the guard is
\* dropped.
StreamingSourcePop ==
    /\ lock = "reader"
    /\ IF buffer # <<>>
         THEN /\ out' = Append(out, Pull(Some(Head(buffer)), "buffer"))
              /\ buffer' = Tail(buffer)
         ELSE /\ out' = Append(out, Pull(Some(0), "silence"))
              /\ UNCHANGED buffer
    /\ lock' = "free"
    /\ UNCHANGED <<callVars, libVars, captured>>
    /\ UNCHANGED <<wsamples, pushed, ndelta, outVars, inVars, capVars>>

-----------------------------------------------------------------------------
(* The capture pipeline (openai_rt_cpal.rs 89-153).  An f32 sample is an   *)
(* integer, in units of 1.0.                                                *)

\* config.channels() of the input device
Channels == 2

\* interleaved buffers the device hands to the callback: one frame
\* (1.0 after downmix) and two frames (0.0 and -2.0 after downmix)
CaptureData == {<<2, 0>>, <<0, 0, -4, 0>>}

RECURSIVE SumSeq(_)
SumSeq(q) == IF q = <<>> THEN 0 ELSE Head(q) + SumSeq(Tail(q))

\* openai_rt_cpal.rs 137-141: the average of each frame's channels
Downmix(data) ==
    [i \in 1..(Len(data) \div Channels) |->
        SumSeq(SubSeq(data, (i - 1) * Channels + 1, i * Channels))
           \div Channels]

\* openai_rt_cpal.rs 118: (s * i16::MAX as f32).clamp(MIN, MAX) as i16
PcmI16(x) ==
    IF x * 32767 > 32767 THEN 32767
    ELSE IF x * 32767 < -32768 THEN -32768 ELSE x * 32767

\* openai_rt_cpal.rs 114-121: the resampled chunk as base64 PCM16; the
\* device runs at the target rate, where the resampler passes the samples on
EncodeChunk(resampled) ==
    Base64Encode(BytesOfI16([i \in DOMAIN resampled |-> PcmI16(resampled[i])]))

\* the Receiver of the chunk channel lives in main, then in the forwarding
\* task
ChunkReceiverAlive == fwd \notin {"done", "panicked"}

\* CaptureCallback on a bounded handoff with a blocking send: the callback
\* waits while the handoff is full.
CaptureCallbackBlocking ==
    /\ inputStream = "playing"
    /\ ncapture < MaxCaptures
    /\ worker # "done" => Len(handoff) < HandoffCapacity
    /\ \E data \in CaptureData :
          handoff' = IF worker # "done" THEN Append(handoff, Downmix(data))
                     ELSE handoff
    /\ ncapture' = ncapture + 1
    /\ UNCHANGED <<callVars, libVars, captured>>
    /\ UNCHANGED <<inputStream, worker, wchunk, chunks, fwd, outVars, inVars,
                   jitVars>>

\* openai_rt_cpal.rs 136-144: the input callback: downmix and
\* audio_tx.send(mono), whose result is ignored.
CaptureCallback ==
    /\ inputStream = "playing"
    /\ ncapture < MaxCaptures
    /\ \E data \in CaptureData :
          handoff' = IF worker # "done" THEN Append(handoff, Downmix(data))
                     ELSE handoff
    /\ ncapture' = ncapture + 1
    /\ UNCHANGED <<callVars, libVars, captured>>
    /\ UNCHANGED <<inputStream, worker, wchunk, chunks, fwd, outVars, inVars,
                   jitVars>>

\* CaptureCallback, with every chunk it produces kept in captured
CaptureCallbackRecorded ==
    /\ inputStream = "playing"
    /\ ncapture < MaxRecorded
    /\ \E data \in CaptureData :
          /\ handoff' = IF worker # "done"
                          THEN Append(handoff, Downmix(data))
                          ELSE handoff
          /\ captured' = Append(captured, Downmix(data))
    /\ ncapture' = ncapture + 1
    /\ UNCHANGED <<callVars, libVars>>
    /\ UNCHANGED <<inputStream, worker, wchunk, chunks, fwd, outVars, inVars,
                   jitVars>>

\* the worker taking the newest chunk of the handoff instead of the oldest
WorkerRecvNewest ==
    /\ worker = "recv"
    /\ IF handoff # <<>>
         THEN /\ handoff' = SubSeq(handoff, 1, Len(handoff) - 1)
              /\ \E resampled \in BOOLEAN :
                    IF resampled
                      THEN /\ wchunk' =
                                 Some(EncodeChunk(handoff[Len(handoff)]))
                           /\ worker' = "send"
                      ELSE UNCHANGED <<wchunk, worker>>
         ELSE /\ inputStream = "dropped"
              /\ worker' = "done"
              /\ UNCHANGED <<handoff, wchunk>>
    /\ UNCHANGED <<callVars, libVars, captured>>
    /\ UNCHANGED <<inputStream, chunks, fwd, ncapture, outVars, inVars,
                   jitVars>>

\* the worker with `else { break; }` on a chunk that fails to resample
WorkerRecvStopping ==
    /\ worker = "recv"
    /\ IF handoff # <<>>
         THEN /\ handoff' = Tail(handoff)
              /\ \E resampled \in BOOLEAN :
                    IF resampled
                      THEN /\ wchunk' = Some(EncodeChunk(Head(handoff)))
                           /\ worker' = "send"
                      ELSE /\ worker' = "done"
                           /\ UNCHANGED wchunk
         ELSE /\ inputStream = "dropped"
              /\ worker' = "done"
              /\ UNCHANGED <<handoff, wchunk>>
    /\ UNCHANGED <<callVars, libVars, captured>>
    /\ UNCHANGED <<inputStream, chunks, fwd, ncapture, outVars, inVars,
                   jitVars>>

\* openai_rt_cpal.rs 109-121: audio_rx.recv() and resampler.process: a chunk
\* that fails to resample is skipped, the others are encoded; recv fails
\* once the handoff is empty and audio_tx is gone, which ends the worker.
WorkerRecv ==
    /\ worker = "recv"
    /\ IF handoff # <<>>
         THEN /\ handoff' = Tail(handoff)
              /\ \E resampled \in BOOLEAN :
                    IF resampled
                      THEN /\ wchunk' = Some(EncodeChunk(Head(handoff)))
                           /\ worker' = "send"
                      ELSE UNCHANGED <<wchunk, worker>>
         ELSE /\ inputStream = "dropped"
              /\ worker' = "done"
              /\ UNCHANGED <<handoff, wchunk>>
    /\ UNCHANGED <<callVars, libVars, captured>>
    /\ UNCHANGED <<inputStream, chunks, fwd, ncapture, outVars, inVars,
                   jitVars>>

\* openai_rt_cpal.rs 122: let _ = raw_tx.send(encoded).await
WorkerSend ==
    /\ worker = "send"
    /\ IF ChunkReceiverAlive
         THEN /\ Len(chunks) < ChunkCapacity
              /\ chunks' = Append(chunks, Unwrap(wchunk))
         ELSE UNCHANGED chunks
    /\ wchunk' = None
    /\ worker' = "recv"
    /\ UNCHANGED <<callVars, libVars, captured>>
    /\ UNCHANGED <<inputStream, handoff, fwd, ncapture, outVars, inVars,
                   jitVars>>

\* The cpal input Stream is dropped: the callback and its audio_tx go.
DropInputStream ==
    /\ inputStream = "playing"
    /\ inputStream' = "dropped"
    /\ UNCHANGED <<callVars, libVars, captured>>
    /\ UNCHANGED <<handoff, worker, wchunk, chunks, fwd, ncapture, outVars,
                   inVars, jitVars>>

\* The caller drops the inbound stream, and with it the read half.
CallerDropStream ==
    /\ rv = "returned"
    /\ stream = "live"
    /\ stream' = "dropped"
    /\ UNCHANGED <<callVars, libVars, captured>>
    /\ UNCHANGED <<wsIn, polled, yielded, outVars, jitVars, capVars>>

\* The websocket is closed once both of its halves are gone: the write
\* half with the pump task, the read half with the stream.
ConnectionClosed ==
    /\ pump \in {"done", "panicked"}
    /\ stream \in {"dropped", "ended"}

-----------------------------------------------------------------------------
(* The session: realtime_voice, its producers and its pump *)

InboundIdle == /\ wsIn = <<>>
               /\ polled = <<>>
               /\ yielded = <<>>

JitterIdle == /\ buffer = <<>>
              /\ lock = "free"
              /\ wsamples = None
              /\ out = <<>>
              /\ pushed = <<>>
              /\ ndelta = 0

\* nothing is in the codec
CodecIdle ==
    /\ codecIn = None
    /\ codecStage = "idle"
    /\ frame1 = None
    /\ typed1 = None
    /\ frame2 = None
    /\ typed2 = None

\* no AutonomousAgent runs
AgentIdle ==
    /\ max_turns = 0
    /\ delay_between_rounds = 0
    /\ turns_taken = 0
    /\ rounds = 0
    /\ run = "idle"
    /\ prompt = ""
    /\ chat_history = <<>>
    /\ res = ""
    /\ chatLog = <<>>
    /\ result = None

\* no PromptTemplate exists
TemplateIdle ==
    /\ template = <<>>
    /\ variables = <<>>
    /\ rendered = None

\* no TokenOutputStream exists and no generation runs
GenerationIdle ==
    /\ tokens = <<>>
    /\ prev_index = 0
    /\ current_index = 0
    /\ streamOut = None
    /\ ncalls = 0
    /\ sample_len = 0
    /\ gen = "idle"
    /\ index = 0
    /\ string = <<>>
    /\ token_usage = 0
    /\ sampled = <<>>
    /\ response = None

\* no router exists
RouterIdle ==
    /\ routeThreshold = 0
    /\ store = Ok(<<>>)
    /\ agents = {}
    /\ turns = 0
    /\ routed = None
    /\ invoked = <<>>

\* no audio generation is asked for
AudioGenerationIdle ==
    /\ ttsRequest = None
    /\ ttsResult = None
    /\ posts = <<>>

ProviderIdle == GenerationIdle /\ RouterIdle /\ AudioGenerationIdle

LibraryIdle == CodecIdle /\ AgentIdle /\ TemplateIdle /\ ProviderIdle

\* main before realtime_voice is called (openai_rt_cpal.rs 39-43): the
\* capture pipeline already runs and may have filled the chunk channel.
Init ==
    /\ rv = "start"
    /\ req \in Requests
    /\ handshake = "pending"
    /\ conn = "none"
    /\ senders = {}
    /\ sending = [p \in Producers |-> None]
    /\ queue = <<>>
    /\ pump = "none"
    /\ inflight = None
    /\ wire = <<>>
    /\ accepted = <<>>
    /\ nsend = 0
    /\ callerErrors = {}
    /\ stream = "none"
    /\ InboundIdle
    /\ JitterIdle
    /\ inputStream = "playing"
    /\ handoff = <<>>
    /\ worker = "recv"
    /\ wchunk = None
    /\ chunks \in BoundedSeq(Chunks, MaxChunks)
    /\ fwd = "none"
    /\ ncapture = 0
    /\ captured = <<>>
    /\ calls = <<>>
    /\ upgrades = 0
    /\ LibraryIdle

Next ==
    \/ RealtimeVoiceConnect
    \/ RealtimeVoiceSendSession
    \/ RealtimeVoiceReturn
    \/ SenderClone
    \/ CallerSendStart
    \/ CallerSendComplete
    \/ CallerDropSender
    \/ ForwarderRecv
    \/ ForwarderSend
    \/ PumpRecv
    \/ PumpSend
    \/ TransportFail

Spec == Init /\ [][Next]_vars

\* The tasks are scheduled by the tokio runtime: a task that can take its
\* next step eventually takes it.
FairSpec ==
    /\ Spec
    /\ WF_vars(PumpRecv)
    /\ WF_vars(PumpSend)
    /\ WF_vars(ForwarderRecv)
    /\ WF_vars(ForwarderSend)
    /\ WF_vars(CallerSendComplete)
    /\ WF_vars(RealtimeVoiceSendSession)
    /\ WF_vars(RealtimeVoiceReturn)

-----------------------------------------------------------------------------
(* Several calls of realtime_voice on one client *)

CallsNext ==
    \/ RealtimeVoiceConnect
    \/ RealtimeVoiceSendSession
    \/ RealtimeVoiceReturn
    \/ RealtimeVoiceCall

CallsSpec == Init /\ [][CallsNext]_vars

-----------------------------------------------------------------------------
(* Playback: the AudioDelta writer of the main loop against the pulls of the *)
(* playback sink, on an open and quiet session                               *)

\* realtime_voice has returned, the forwarding task runs, nothing is queued
SessionOpenQuiet ==
    /\ rv = "returned"
    /\ req = [session |-> Some(SessionSage)]
    /\ handshake = "ok"
    /\ conn = "open"
    /\ senders = {"caller", "fwd"}
    /\ sending = [p \in Producers |-> None]
    /\ queue = <<>>
    /\ pump = "recv"
    /\ inflight = None
    /\ wire = <<TextMessage(InputEventToJson(UpdateSession(SessionSage)))>>
    /\ accepted = <<UpdateSession(SessionSage)>>
    /\ nsend = 0
    /\ callerErrors = {}
    /\ stream = "live"
    /\ calls = <<CallRecord("ok", 1, 1)>>
    /\ upgrades = 1

CaptureQuiet ==
    /\ inputStream = "playing"
    /\ handoff = <<>>
    /\ worker = "recv"
    /\ wchunk = None
    /\ chunks = <<>>
    /\ ncapture = 0
    /\ captured = <<>>

\* main once the forwarding task is spawned (openai_rt_cpal.rs 53)
OpenInit ==
    /\ SessionOpenQuiet
    /\ fwd = "recv"
    /\ CaptureQuiet
    /\ InboundIdle
    /\ JitterIdle
    /\ LibraryIdle

JitterNext ==
    \/ WriterDecode
    \/ WriterLock
    \/ WriterExtend
    \/ StreamingSourceTryLock
    \/ StreamingSourcePop

JitterSpec == OpenInit /\ [][JitterNext]_vars

-----------------------------------------------------------------------------
(* The inbound stream of an open and quiet session *)

InboundNext ==
    \/ WsDeliver
    \/ StreamPoll

InboundSpec == OpenInit /\ [][InboundNext]_vars

\* The main loop of the caller polls the stream for as long as it is live
\* (openai_rt_cpal.rs 62); the server owes nothing.
InboundFairSpec == InboundSpec /\ WF_vars(StreamPoll)

-----------------------------------------------------------------------------
(* The whole pipeline of an open session: capture callback, resampling      *)
(* worker, forwarding task and pump, and the caller letting go of its       *)
(* handles                                                                  *)

PipelineNext ==
    \/ CaptureCallback
    \/ WorkerRecv
    \/ WorkerSend
    \/ ForwarderRecv
    \/ ForwarderSend
    \/ PumpRecv
    \/ PumpSend
    \/ TransportFail
    \/ CallerDropSender
    \/ CallerDropStream
    \/ DropInputStream

\* The three tasks are scheduled by the tokio runtime; the callback, the
\* transport and the caller are not obliged to do anything.
PipelineSpec ==
    /\ OpenInit
    /\ [][PipelineNext]_vars
    /\ WF_vars(WorkerRecv)
    /\ WF_vars(WorkerSend)
    /\ WF_vars(ForwarderRecv)
    /\ WF_vars(ForwarderSend)
    /\ WF_vars(PumpRecv)
    /\ WF_vars(PumpSend)

\* The pipeline of an open session while the caller sends events of its own
\* on the Sender it holds (openai_rt_cpal.rs 46-53, realtime.rs 78-85).
InterleavedNext ==
    \/ CaptureCallbackRecorded
    \/ WorkerRecv
    \/ WorkerSend
    \/ ForwarderRecv
    \/ ForwarderSend
    \/ CallerSendStart
    \/ CallerSendComplete
    \/ PumpRecv
    \/ PumpSend
    \/ TransportFail

InterleavedSpec == OpenInit /\ [][InterleavedNext]_vars

-----------------------------------------------------------------------------
(* The session in both directions: the producers and the pump against the   *)
(* server's frames, the consumer's polls and the end of the connection      *)

\* main once the forwarding task is spawned, with what the capture pipeline
\* has put in the chunk channel meanwhile (openai_rt_cpal.rs 39-53)
SessionInit ==
    /\ SessionOpenQuiet
    /\ fwd = "recv"
    /\ inputStream = "playing"
    /\ handoff = <<>>
    /\ worker = "recv"
    /\ wchunk = None
    /\ chunks \in BoundedSeq(Chunks, MaxChunks)
    /\ ncapture = 0
    /\ captured = <<>>
    /\ InboundIdle
    /\ JitterIdle
    /\ LibraryIdle

SessionNext ==
    \/ CallerSendStart
    \/ CallerSendComplete
    \/ CallerDropSender
    \/ CallerDropStream
    \/ ForwarderRecv
    \/ ForwarderSend
    \/ PumpRecv
    \/ PumpSend
    \/ ServerSend
    \/ ReadHalfFail
    \/ ReadHalfEnd
    \/ StreamPoll

\* The tasks are scheduled by the tokio runtime, and the main loop of the
\* caller polls the stream for as long as it holds it
\* (openai_rt_cpal.rs 62); the server and the transport owe nothing.
SessionSpec ==
    /\ SessionInit
    /\ [][SessionNext]_vars
    /\ WF_vars(CallerSendComplete)
    /\ WF_vars(ForwarderRecv)
    /\ WF_vars(ForwarderSend)
    /\ WF_vars(PumpRecv)
    /\ WF_vars(PumpSend)
    /\ WF_vars(StreamPoll)

-----------------------------------------------------------------------------
(* The codec applied to one event or one frame; the session stands open and *)
(* quiet beside it                                                          *)

SessionStandsOpen ==
    /\ SessionOpenQuiet
    /\ fwd = "recv"
    /\ CaptureQuiet
    /\ InboundIdle
    /\ JitterIdle

CodecInit ==
    /\ SessionStandsOpen
    /\ AgentIdle
    /\ TemplateIdle
    /\ ProviderIdle
    /\ codecIn \in CodecInputs
    /\ codecStage = "start"
    /\ frame1 = None
    /\ typed1 = None
    /\ frame2 = None
    /\ typed2 = None

CodecNext ==
    \/ EncodeInputEvent
    \/ DecodeSession
    \/ DecodeReceivedEvent
    \/ EncodeReceivedEvent
    \/ DecodeReceivedEventAgain

CodecSpec == CodecInit /\ [][CodecNext]_vars

-----------------------------------------------------------------------------
(* One call of run on an AutonomousAgent.  new() sets max_turns and         *)
(* delay_between_rounds to 0 and the type has no other constructor; the    *)
(* other values are those of the fields' types, up to the bounds.          *)

AgentInit ==
    /\ SessionStandsOpen
    /\ CodecIdle
    /\ TemplateIdle
    /\ ProviderIdle
    /\ max_turns \in 0..MaxTurns
    /\ delay_between_rounds \in 0..MaxDelay
    /\ turns_taken = 0
    /\ rounds = 0
    /\ run = "new"
    /\ prompt \in Prompts
    /\ chat_history \in Histories
    /\ res = ""
    /\ chatLog = <<>>
    /\ result = None

AgentNext ==
    \/ AgentRun
    \/ AgentRound
    \/ AgentExitCondition
    \/ AgentTick

\* run is polled to its end, and chat, the exit condition and the tick
\* complete
AgentSpec ==
    /\ AgentInit
    /\ [][AgentNext]_vars
    /\ WF_vars(AgentRun)
    /\ WF_vars(AgentRound)
    /\ WF_vars(AgentExitCondition)
    /\ WF_vars(AgentTick)

-----------------------------------------------------------------------------
(* A PromptTemplate is made with new, given variables and rendered *)

TemplateInit ==
    /\ SessionStandsOpen
    /\ CodecIdle
    /\ AgentIdle
    /\ ProviderIdle
    /\ template \in Templates
    /\ variables = <<>>
    /\ rendered = None

TemplateNext ==
    \/ WithVariable
    \/ RenderToString

TemplateSpec == TemplateInit /\ [][TemplateNext]_vars

-----------------------------------------------------------------------------
(* A router is built and prompted once *)

RouterInit ==
    /\ SessionStandsOpen
    /\ CodecIdle
    /\ AgentIdle
    /\ TemplateIdle
    /\ GenerationIdle
    /\ AudioGenerationIdle
    /\ routeThreshold \in 0..MaxScore
    /\ store \in StoreResults
    /\ agents \in SUBSET Tags \ {{}}
    /\ turns \in {0, 2}
    /\ routed = None
    /\ invoked = <<>>

RouterNext ==
    \/ RouterPrompt
    \/ RouterWithAgentsPrompt

RouterSpec == RouterInit /\ [][RouterNext]_vars

-----------------------------------------------------------------------------
(* A TokenOutputStream is made with new and called *)

TokenStreamInit ==
    /\ SessionStandsOpen
    /\ CodecIdle
    /\ AgentIdle
    /\ TemplateIdle
    /\ RouterIdle
    /\ AudioGenerationIdle
    /\ GenerationIdle

TokenStreamNext ==
    \/ StreamNextToken
    \/ StreamClear

TokenStreamSpec == TokenStreamInit /\ [][TokenStreamNext]_vars

-----------------------------------------------------------------------------
(* TextGeneration::run is called once on a new TextGeneration *)

GenerationInit ==
    /\ SessionStandsOpen
    /\ CodecIdle
    /\ AgentIdle
    /\ TemplateIdle
    /\ RouterIdle
    /\ AudioGenerationIdle
    /\ tokens = <<>>
    /\ prev_index = 0
    /\ current_index = 0
    /\ streamOut = None
    /\ ncalls = 0
    /\ sample_len \in 0..MaxSampleLen
    /\ gen = "new"
    /\ index = 0
    /\ string = <<>>
    /\ token_usage = 0
    /\ sampled = <<>>
    /\ response = None

GenerationNext ==
    \/ GenerationRun
    \/ GenerationSample
    \/ GenerationReturn

GenerationSpec == GenerationInit /\ [][GenerationNext]_vars

-----------------------------------------------------------------------------
(* audio_generation is called once on an ElevenLabs model *)

AudioGenerationInit ==
    /\ SessionStandsOpen
    /\ CodecIdle
    /\ AgentIdle
    /\ TemplateIdle
    /\ GenerationIdle
    /\ RouterIdle
    /\ ttsRequest \in {Some(r) : r \in AudioGenerationRequests}
    /\ ttsResult = None
    /\ posts = <<>>

AudioGenerationNext == AudioGeneration

AudioGenerationSpec == AudioGenerationInit /\ [][AudioGenerationNext]_vars

-----------------------------------------------------------------------------
(* Claims about the outbound side *)

\* the text frames of a sequence of events
EncodeAll(events) ==
    [i \in 1..Len(events) |-> TextMessage(InputEventToJson(events[i]))]

IsAppendFrame(m) ==
    Unwrap(m.json).v["type"] = JStr("input_audio_buffer.append")

\* C1: the frames on the wire are the accepted events in enqueue order: the
\* wire is always a prefix of the accepted sequence, and while the pump has
\* not failed the accepted sequence is exactly the wire, then the frame
\* being written, then the queue.
C1_WireKeepsEnqueueOrder ==
    /\ Len(wire) <= Len(accepted)
    /\ wire = SubSeq(EncodeAll(accepted), 1, Len(wire))
    /\ pump # "panicked" =>
          EncodeAll(accepted) = wire \o EncodeAll(inflight \o queue)

C1_Witness ==
    /\ Len(wire) >= 3
    /\ wire = EncodeAll(accepted)
    /\ \E i, j \in 1..Len(accepted) :
          /\ i < j
          /\ accepted[i].data.variant = "AppendAudioInput"
          /\ accepted[j].data.variant # "AppendAudioInput"

\* C3: when the request carries a session, its session.update is accepted
\* first, before the Sender is handed out, and so it is the first frame on
\* the wire, ahead of every input_audio_buffer.append.
C3_SessionUpdateFirst ==
    IsSome(req.session) =>
       /\ (rv = "returned" \/ senders \cap Producers # {}) =>
             /\ accepted # <<>>
             /\ accepted[1] = UpdateSession(Unwrap(req.session))
       /\ wire # <<>> =>
             /\ wire[1] = TextMessage(InputEventToJson(
                                          UpdateSession(Unwrap(req.session))))
             /\ ~IsAppendFrame(wire[1])

C3_Witness ==
    /\ IsSome(req.session)
    /\ Len(wire) >= 2
    /\ IsAppendFrame(wire[2])

\* C7: the queue never holds more than its capacity; a send that finds it
\* full stays suspended until the pump has dequeued; no accepted event is
\* lost; and every accepted event is eventually written unless the
\* connection fails.
C7_BackpressureNoDrop ==
    /\ [](Len(queue) <= QueueCapacity)
    /\ [](pump # "panicked" =>
            Len(accepted) = Len(wire) + Len(inflight) + Len(queue))
    /\ [][\A p \in Producers :
            (IsSome(sending[p]) /\ Len(queue) = QueueCapacity /\ ReceiverAlive)
               => sending'[p] = sending[p]]_vars
    /\ \A n \in 1..(MaxEvents + MaxChunks + 1) :
          (Len(accepted) >= n) ~> (Len(wire) >= n \/ conn # "open")

C7_Witness ==
    /\ Len(queue) = QueueCapacity
    /\ \E p \in Producers : IsSome(sending[p])
    /\ ReceiverAlive
    /\ conn = "open"

\* C8: a transport error met by the pump reaches the caller as a
\* TransportError value.
C8_TransportErrorSurfaced ==
    (pump = "panicked") ~> ("TransportError" \in callerErrors)

\* C9: a failed handshake makes realtime_voice return an Err, with no
\* sender, no stream and no task created.
C9_HandshakeErrorReturned ==
    handshake = "err" =>
       /\ rv = "returned_err"
       /\ senders = {}
       /\ pump = "none"
       /\ stream = "none"

-----------------------------------------------------------------------------
(* Claims about the playback jitter buffer *)

\* the samples a sequence of pulls returned
Returned(pulls) == [i \in 1..Len(pulls) |-> Unwrap(pulls[i].ret)]

Zeros(k) == [i \in 1..k |-> 0]

\* C4: every pull returns a sample, never None: the zero sample on lock
\* contention or on an empty queue.
C4_PullAlwaysReturnsSample ==
    \A i \in 1..Len(out) :
       /\ IsSome(out[i].ret)
       /\ out[i].src # "buffer" => out[i].ret = Some(0)

\* C5: what the pulls took from the buffer, followed by what is still
\* buffered, is what was appended, in order; and when every pull found the
\* mutex free and came after the last append, the pulls returned the
\* appended samples in order and then zeros.
C5_PullsReturnAppendedThenSilence ==
    /\ Returned(SelectSeq(out, LAMBDA e : e.src = "buffer")) \o buffer = pushed
    /\ (\A i \in 1..Len(out) :
           out[i].src # "contended" /\ out[i].total = Len(pushed))
          => Returned(out)
               = SubSeq(pushed \o Zeros(Len(out)), 1, Len(out))

C5_Witness ==
    /\ pushed = <<1, 2, 3>>
    /\ Len(out) = 5
    /\ \A i \in 1..5 : out[i].src # "contended" /\ out[i].total = 3
    /\ Returned(out) = <<1, 2, 3, 0, 0>>

\* C6: the pull never waits for the mutex: whoever holds it, the pull's
\* next step can be taken at once.
C6_PullNeverWaits ==
    /\ (lock # "reader" /\ Len(out) < MaxPulls) => ENABLED StreamingSourceTryLock
    /\ lock = "reader" => ENABLED StreamingSourcePop
    /\ (IsSome(wsamples) /\ lock = "reader") => ~ENABLED WriterLock

\* the writer holds the mutex and a pull has just returned under it
C6_Witness ==
    /\ lock = "writer"
    /\ Len(out) >= 2
    /\ out[Len(out)].src = "contended"
    /\ out[Len(out)].total = Len(pushed)

-----------------------------------------------------------------------------
(* Claims about the inbound stream *)

EventSessionCreated ==
    [event_id |-> Some("evt_a"),
     data |-> [variant |-> "Session",
               event |-> [variant |-> "SessionCreated",
                          session |-> [SessionNew EXCEPT
                                         !["voice"] = Some("sage"),
                                         !["modalities"] =
                                             Some(<<"Text", "Audio">>)]]]]

EventSessionUpdated ==
    [event_id |-> None,
     data |-> [variant |-> "Session",
               event |-> [variant |-> "SessionUpdated",
                          session |-> [SessionNew EXCEPT
                                         !["input_audio_format"] =
                                             Some("Pcm16")]]]]

EventAudioDelta ==
    [event_id |-> Some("evt_b"),
     data |-> [variant |-> "Item", item_id |-> "item_1",
               response_id |-> "resp_1", output_index |-> 0,
               content_index |-> 0,
               data |-> [variant |-> "AudioDelta",
                         delta |-> DeltaOneTwoThree]]]

EventAudioDone ==
    [event_id |-> None,
     data |-> [variant |-> "Item", item_id |-> "item_1",
               response_id |-> "resp_1", output_index |-> 0,
               content_index |-> 0, data |-> [variant |-> "AudioDone"]]]

\* the events a consumer must see for the items taken off the read half:
\* one per parseable frame, none for anything else
RECURSIVE ExpectedEvents(_)
ExpectedEvents(items) ==
    IF items = <<>> THEN <<>>
    ELSE LET item == Head(items)
             ev == CASE item = FrameSessionCreated -> <<EventSessionCreated>>
                     [] item = FrameSessionUpdated -> <<EventSessionUpdated>>
                     [] item = FrameAudioDelta -> <<EventAudioDelta>>
                     [] item = FrameAudioDone -> <<EventAudioDone>>
                     [] OTHER -> <<>>
         IN  ev \o ExpectedEvents(Tail(items))

\* C2: the events yielded are the decodings of the parseable frames, in
\* arrival order; an unparseable frame yields nothing and does not end the
\* stream, which ends only when the read half does.
C2_MalformedFramesInvisible ==
    /\ yielded = ExpectedEvents(polled)
    /\ stream = "ended" <=>
          (polled # <<>> /\ polled[Len(polled)] = EndOfStream)

C2_Witness ==
    /\ stream = "live"
    /\ Len(polled) = 3
    /\ polled[1] \in ParseableFrames
    /\ polled[2] \in UnparseableFrames
    /\ polled[3] \in ParseableFrames
    /\ Len(yielded) = 2

\* the inbound types this client knows
KnownInboundTypes == {"session.created", "session.updated",
                      "response.audio.delta", "response.audio.done"}

\* item is a text frame of an audio type that lacks one of the four fields
\* of an item, or a text frame of a type that is not known
LacksFieldOrUnknown(item) ==
    /\ item.kind = "Text"
    /\ IsSome(item.json)
    /\ Unwrap(item.json).t = "obj"
    /\ LET o == Unwrap(item.json).v
       IN  /\ "type" \in DOMAIN o
           /\ o["type"].t = "str"
           /\ \/ /\ o["type"].v \in {"response.audio.delta",
                                      "response.audio.done"}
                 /\ DOMAIN ItemContext \ DOMAIN o # {}
              \/ o["type"].v \notin KnownInboundTypes

\* C32: an audio delta or audio done frame that lacks one of item_id,
\* response_id, output_index and content_index yields no event, and neither
\* does a frame of an unknown type; the stream stays live, and the frame
\* taken next yields its event as usual.
C32_IncompleteFramesSkipped ==
    /\ \A f \in FramesLackingOneField \cup {FrameTranscriptDelta} :
          LacksFieldOrUnknown(f) /\ FilterMapItem(f) = None
    /\ [][(/\ wsIn # <<>>
           /\ polled' = Append(polled, Head(wsIn))
           /\ LacksFieldOrUnknown(Head(wsIn)))
             => (yielded' = yielded /\ stream = "live" /\ stream' = "live")
         ]_vars
    /\ [][(/\ polled # <<>>
           /\ LacksFieldOrUnknown(polled[Len(polled)])
           /\ wsIn # <<>>
           /\ polled' = Append(polled, Head(wsIn)))
             => yielded' = yielded \o ExpectedEvents(<<Head(wsIn)>>)
         ]_vars

C32_Witness ==
    /\ stream = "live"
    /\ Len(polled) = 3
    /\ polled[1] = FrameWithout(FrameAudioDone, "output_index")
    /\ polled[2] = FrameTranscriptDelta
    /\ polled[3] = FrameAudioDone
    /\ yielded = <<EventAudioDone>>

-----------------------------------------------------------------------------
(* Claims about cancellation *)

\* the caller holds neither its Sender nor the stream any more
SessionHandleDropped ==
    /\ rv = "returned"
    /\ "caller" \notin senders
    /\ stream = "dropped"

\* C10: once the caller has dropped the session handle, the connection is
\* eventually closed and the pump, the resampling worker and the
\* forwarding task have all terminated.
C10_DropTerminatesEverything ==
    SessionHandleDropped ~>
       (/\ ConnectionClosed
        /\ worker = "done"
        /\ fwd \in {"done", "panicked"})

-----------------------------------------------------------------------------
(* Claims about the end of a session *)

\* C11: once every Sender is dropped the pump writes what is still queued,
\* in order, and then ends: a pump that has ended normally has seen every
\* Sender dropped and has left nothing queued or unwritten, and a pump
\* whose Senders are all dropped does end, unless the connection fails
\* under it.
C11_PumpDrainsThenEnds ==
    /\ [](pump = "done" =>
            /\ senders = {}
            /\ queue = <<>>
            /\ inflight = None
            /\ wire = EncodeAll(accepted))
    /\ (ReceiverAlive /\ senders = {}) ~> (pump = "done" \/ conn # "open")

C11_Witness ==
    /\ pump = "done"
    /\ conn = "open"
    /\ Len(wire) >= 2
    /\ wire = EncodeAll(accepted)

-----------------------------------------------------------------------------
(* Claims about errors and close frames on the read half *)

\* the stream has taken an Err(err) off the read half
ReadErrorPolled == \E i \in 1..Len(polled) : polled[i].kind = "Err"

\* the stream has taken a close frame off the read half
CloseFramePolled == \E i \in 1..Len(polled) : polled[i].kind = "Close"

\* C12: a transport error reported by the read half ends the inbound
\* stream, which takes nothing more off the socket after it, stops the
\* pump, and reaches the caller as a TransportError.
C12_ReadErrorEndsSession ==
    /\ [][ReadErrorPolled => polled' = polled]_vars
    /\ ReadErrorPolled ~>
          (/\ stream = "ended"
           /\ pump \in {"done", "panicked"}
           /\ "TransportError" \in callerErrors)

\* C13: a close frame taken off the read half ends the inbound stream;
\* binary, ping and pong frames yield no event and do not end it.
C13_CloseFrameEndsStream ==
    /\ [](yielded = ExpectedEvents(polled))
    /\ [](stream = "ended" =>
            \E i \in 1..Len(polled) : polled[i].kind \in {"Close", "End"})
    /\ CloseFramePolled ~> (stream = "ended")

-----------------------------------------------------------------------------
(* Claims about the capture handoff *)

\* the worker is stalled on a full chunk channel
WorkerStalled == worker = "send" /\ ~ENABLED WorkerSend

\* C14: the handoff never holds more chunks than its capacity, and a
\* callback that finds it full leaves the queued chunks as they are.
C14_HandoffBounded ==
    /\ [](Len(handoff) <= HandoffCapacity)
    /\ [][(ncapture' > ncapture /\ Len(handoff) >= HandoffCapacity)
            => handoff' = handoff]_vars

\* C15: the callback never waits: whatever the handoff holds and whatever
\* the worker does, stalled or not, an invocation can take its step, and
\* the step hands the chunk over or, with the worker gone, discards it.
C15_CallbackNeverBlocks ==
    /\ [](inputStream = "playing" /\ ncapture < MaxCaptures
            => ENABLED CaptureCallback)
    /\ [][ncapture' > ncapture =>
            /\ worker # "done" => Len(handoff') = Len(handoff) + 1
            /\ worker = "done" => handoff' = handoff
            /\ UNCHANGED <<worker, wchunk, chunks>>]_vars

\* the callback has run, can run again, and the worker is stalled
C15_Witness ==
    /\ WorkerStalled
    /\ inputStream = "playing"
    /\ 2 <= ncapture
    /\ ncapture < MaxCaptures

-----------------------------------------------------------------------------
(* Claims about the states of a session *)

\* the session is Closed: the transport has failed, or the connection has
\* been closed
SessionClosed == conn # "open"

IsAudioFrame(m) ==
    Unwrap(m.json).v["type"] \in {JStr("input_audio_buffer.append"),
                                  JStr("input_audio_buffer.commit")}

IsUpdateFrame(m) == Unwrap(m.json).v["type"] = JStr("session.update")

\* session.created has arrived on the connection
SessionCreatedReceived ==
    \E i \in 1..Len(polled \o wsIn) : (polled \o wsIn)[i] = FrameSessionCreated

\* a session.update on the wire has no session.updated to it yet
UpdatePending ==
    Len(SelectSeq(wire, IsUpdateFrame))
       > Len(SelectSeq(polled \o wsIn, LAMBDA f : f = FrameSessionUpdated))

\* C16: Closed is terminal: the session stays Closed, no event is accepted
\* from a producer or written to the wire any more, and the inbound stream
\* comes to its end.
C16_ClosedIsTerminal ==
    /\ [][SessionClosed => SessionClosed']_vars
    /\ [][SessionClosed => accepted' = accepted /\ wire' = wire]_vars
    /\ SessionClosed ~> (stream \in {"ended", "dropped"})

\* C17: an input_audio_buffer.append or input_audio_buffer.commit frame is
\* written only once session.created has arrived and while no
\* session.update awaits its session.updated.
C17_AudioOnlyWhenOpen ==
    [][(Len(wire') > Len(wire) /\ IsAudioFrame(wire'[Len(wire')]))
          => (SessionCreatedReceived /\ ~UpdatePending)]_vars

\* C18: the connection is torn down once: it is closed after the senders
\* are all dropped, after the stream is exhausted and after the caller
\* lets go of the stream, and once closed it stays closed.
C18_TornDownExactlyOnce ==
    /\ [][ConnectionClosed => ConnectionClosed']_vars
    /\ (senders = {} \/ stream \in {"ended", "dropped"}) ~> ConnectionClosed

-----------------------------------------------------------------------------
(* Claims about the handles of a connection *)

\* C19, as the spec states it: while the connection is open there is
\* exactly one live Sender and exactly one live inbound stream.
C19_ExactlyOneSender ==
    conn = "open" => (Cardinality(senders) = 1 /\ stream = "live")

\* C19, amended: realtime_voice holds the only Sender until it returns,
\* and its return hands out exactly that one Sender, moved and not cloned,
\* with the one stream; afterwards the live Senders are the caller's and
\* the clone of the running forwarding task, any of which may be gone; a
\* call whose handshake failed has no Sender, no stream and no pump.
C19_OneSenderHandedOut ==
    /\ [](rv \in {"spawned", "enqueued"} =>
            senders = {"rv"} /\ stream = "live")
    /\ [][(rv # "returned" /\ rv' = "returned") =>
            senders' = {"caller"} /\ stream' = "live"]_vars
    /\ [](rv = "returned" =>
            /\ senders \subseteq Producers
            /\ "fwd" \in senders => fwd \in {"recv", "send"})
    /\ [](handshake # "ok" =>
            senders = {} /\ stream = "none" /\ pump = "none")

\* the caller's Sender and the forwarding task's clone both live
C19_Witness ==
    /\ conn = "open"
    /\ senders = {"caller", "fwd"}
    /\ IsSome(sending["caller"])
    /\ IsSome(sending["fwd"])

-----------------------------------------------------------------------------
(* Claims about the calls of realtime_voice *)

\* C20: every call of realtime_voice has sent exactly one upgrade request,
\* the failed ones too; a failed call has made nothing and its result
\* stays; and no two calls share a websocket, a channel or a pump task.
C20_OneUpgradePerCall ==
    /\ [](upgrades = Len(calls))
    /\ [](\A i \in 1..Len(calls) :
            calls[i].handshake = "err" =>
               /\ calls[i].websocket = None
               /\ calls[i].channel = None
               /\ calls[i].pumpTask = None)
    /\ [](\A i, j \in 1..Len(calls) :
            (i # j /\ calls[i].handshake = "ok" /\ calls[j].handshake = "ok")
               => /\ calls[i].websocket # calls[j].websocket
                  /\ calls[i].channel # calls[j].channel
                  /\ calls[i].pumpTask # calls[j].pumpTask)
    /\ [][/\ SubSeq(calls', 1, Len(calls)) = calls
          /\ handshake # "pending" => handshake' = handshake]_vars

\* a call has succeeded, a later one has failed, one after that has
\* succeeded
C20_Witness ==
    /\ Len(calls) = 3
    /\ calls[1].handshake = "ok"
    /\ calls[2].handshake = "err"
    /\ calls[3].handshake = "ok"
    /\ rv = "returned"

-----------------------------------------------------------------------------
(* Claims about the event codec *)

\* Session::new().voice("sage").input_audio_format(AudioFormat::Pcm16)
SessionVoiceAndFormat ==
    SessionInputAudioFormat(SessionVoice(SessionNew, "sage"), "Pcm16")

\* the Session of a session.update frame has been decoded
SessionDecoded == codecStage = "decoded" /\ codecIn.dir = "out"

\* C21: encoding a Session in which only voice and input_audio_format are
\* set and decoding the resulting frame yields a Session with exactly those
\* two fields populated, with the same values, and every other field absent.
C21_SessionRoundTrip ==
    (SessionDecoded /\ codecIn.event.data.session = SessionVoiceAndFormat)
       => /\ IsSome(typed1)
          /\ Unwrap(typed1)["voice"] = Some("sage")
          /\ Unwrap(typed1)["input_audio_format"] = Some("Pcm16")
          /\ \A f \in SessionFields \ {"voice", "input_audio_format"} :
                Unwrap(typed1)[f] = None

C21_Witness ==
    /\ SessionDecoded
    /\ codecIn.event = UpdateSession(SessionVoiceAndFormat)
    /\ Unwrap(frame1).v["session"] =
          JObj([voice |-> JStr("sage"), input_audio_format |-> JStr("pcm16")])
    /\ typed1 = Some(SessionVoiceAndFormat)

\* the inbound frame has decoded to a SessionUpdated event
DecodedSessionUpdated ==
    /\ codecIn.dir = "in"
    /\ IsSome(typed1)
    /\ Unwrap(typed1).data.variant = "Session"
    /\ Unwrap(typed1).data.event.variant = "SessionUpdated"

\* C22: for every wire frame that decodes to a SessionUpdated event,
\* decoding it, encoding the typed value again and decoding that yields a
\* typed value identical to the first decoding: same variant, same
\* event_id, same session fields.
C22_SessionUpdatedIdempotent ==
    (codecStage = "redecoded" /\ DecodedSessionUpdated)
       => /\ IsSome(typed2)
          /\ Unwrap(typed2).data.variant = Unwrap(typed1).data.variant
          /\ Unwrap(typed2).data.event.variant = "SessionUpdated"
          /\ Unwrap(typed2).event_id = Unwrap(typed1).event_id
          /\ Unwrap(typed2).data.event.session
                = Unwrap(typed1).data.event.session
          /\ typed2 = typed1

C22_Witness ==
    /\ codecStage = "redecoded"
    /\ codecIn.dir = "in"
    /\ codecIn.frame = FrameSessionUpdatedFull
    /\ DecodedSessionUpdated
    /\ Unwrap(typed1).event_id = Some("evt_d")
    /\ Unwrap(typed1).data.event.session["turn_detection"] =
          Some([TurnDetectionWithOpenAiDefaults
                   EXCEPT !.silence_duration_ms = None,
                          !.create_response = None])
    /\ typed2 = typed1

\* the inbound frame is a JSON object that matches a session shape
SessionShape ==
    /\ IsSome(codecIn.frame.json)
    /\ Unwrap(codecIn.frame.json).t = "obj"
    /\ IsSome(SessionEventFromJson(Unwrap(codecIn.frame.json).v))

\* the inbound frame matches a session shape and carries the item fields
BothShapes ==
    /\ SessionShape
    /\ HasItemFields(Unwrap(codecIn.frame.json).v)

\* C23: decoding an inbound frame tries the session shapes first and the
\* item shape only if no session shape matches: a frame that satisfies both
\* (a session type with a session object plus item_id, response_id,
\* output_index, content_index) always decodes to the Session variant, and
\* a frame that decodes to the Item variant matches no session shape.
C23_SessionShapeFirst ==
    (codecStage \in {"decoded", "reencoded", "redecoded"}
        /\ codecIn.dir = "in")
       => /\ BothShapes => /\ IsSome(typed1)
                           /\ Unwrap(typed1).data.variant = "Session"
          /\ (IsSome(typed1) /\ Unwrap(typed1).data.variant = "Item")
                => ~SessionShape

C23_Witness ==
    /\ codecStage = "decoded"
    /\ codecIn.dir = "in"
    /\ codecIn.frame = FrameSessionUpdatedWithItem
    /\ BothShapes
    /\ typed1 = Some([event_id |-> None,
                      data |-> [variant |-> "Session",
                                event |-> [variant |-> "SessionUpdated",
                                           session |->
                                              SessionVoice(SessionNew,
                                                           "sage")]]])

\* no null stands in the JSON value v, at any depth
RECURSIVE NoNull(_)
NoNull(v) ==
    /\ v.t # "null"
    /\ v.t = "obj" => \A k \in DOMAIN v.v : NoNull(v.v[k])
    /\ v.t = "arr" => \A i \in DOMAIN v.v : NoNull(v.v[i])

\* C24: every encoded outbound frame omits each unset optional field
\* instead of emitting a null placeholder: the event's correlation id,
\* every Session field, and the fields nested inside a set Session field
\* (a TurnDetection built with empty() emits no null threshold,
\* prefix_padding_ms, silence_duration_ms or create_response).
C24_NoNullPlaceholder ==
    (codecStage \in {"encoded", "decoded"} /\ codecIn.dir = "out")
       => NoNull(Unwrap(frame1))

\* the discriminator of each variant of InputEventKind
Discriminator(variant) ==
    CASE variant = "CommitAudioInputBuffer" -> "input_audio_buffer.commit"
      [] variant = "ClearAudioInputBuffer" -> "input_audio_buffer.clear"
      [] variant = "AppendAudioInput" -> "input_audio_buffer.append"
      [] variant = "UpdateSession" -> "session.update"

\* the member that carries the payload of each variant
PayloadKeys(variant) ==
    CASE variant = "AppendAudioInput" -> {"audio"}
      [] variant = "UpdateSession" -> {"session"}
      [] OTHER -> {}

\* C25: each InputEvent variant encodes to a frame whose type is,
\* respectively, input_audio_buffer.commit, input_audio_buffer.clear,
\* input_audio_buffer.append (with the base64 string in audio) and
\* session.update (with the Session in session); distinct variants never
\* share a discriminator, and the correlation id is in the frame iff it was
\* set with with_id.
C25_FrameShapes ==
    (codecStage \in {"encoded", "decoded"} /\ codecIn.dir = "out")
       => LET e == codecIn.event
              o == Unwrap(frame1).v
          IN  /\ Unwrap(frame1).t = "obj"
              /\ o["type"] = JStr(Discriminator(e.data.variant))
              /\ e.data.variant = "AppendAudioInput"
                    => o["audio"] = JStr(e.data.audio)
              /\ e.data.variant = "UpdateSession"
                    => o["session"] = SessionToJson(e.data.session)
              /\ DOMAIN o = {"type"} \cup PayloadKeys(e.data.variant)
                               \cup (IF IsSome(e.event_id) THEN {"event_id"}
                                     ELSE {})
              /\ IsSome(e.event_id)
                    => o["event_id"] = JStr(Unwrap(e.event_id))
              /\ \A other \in CodecEvents :
                    InputEventToJson(other).v["type"] = o["type"]
                       => other.data.variant = e.data.variant

C25_Witness ==
    /\ codecStage = "encoded"
    /\ codecIn.dir = "out"
    /\ codecIn.event = WithId(AppendAudio(<<"A", "A", "A", "=">>), "evt_1")
    /\ frame1 = Some(JObj([type |-> JStr("input_audio_buffer.append"),
                           event_id |-> JStr("evt_1"),
                           audio |-> JStr(<<"A", "A", "A", "=">>)]))

-----------------------------------------------------------------------------
(* Claims about the resampling worker and the forwarding task *)

\* no AppendAudioInput is anywhere between the worker and the wire
NoAppendAnywhere ==
    /\ chunks = <<>>
    /\ sending["fwd"] = None
    /\ \A i \in 1..Len(accepted) :
          accepted[i].data.variant # "AppendAudioInput"

\* C26: when the resampler fails on a chunk, the worker drops that chunk
\* only: the step that takes a chunk from the handoff either encodes it or
\* produces nothing for it and leaves the worker receiving; the worker ends
\* only once the capture stream is gone and the handoff is empty; and a
\* handoff that holds chunks is emptied in the end.
C26_ResamplerFailureSkipsChunk ==
    /\ [][(worker = "recv" /\ handoff # <<>> /\ handoff' = Tail(handoff))
            => \/ /\ wchunk' = Some(EncodeChunk(Head(handoff)))
                  /\ worker' = "send"
               \/ /\ worker' = "recv"
                  /\ UNCHANGED <<wchunk, chunks, sending, queue, accepted>>
          ]_vars
    /\ [](worker = "done" => inputStream = "dropped" /\ handoff = <<>>)
    /\ [](worker = "recv" /\ handoff # <<>> => ENABLED WorkerRecv)
    /\ (handoff # <<>>) ~> (handoff = <<>>)

\* two chunks were captured and the worker has taken both: the first left
\* nothing behind, the second is encoded
C26_Witness ==
    /\ ncapture = 2
    /\ handoff = <<>>
    /\ worker = "send"
    /\ wchunk \in {Some(EncodeChunk(Downmix(data))) : data \in CaptureData}
    /\ fwd = "recv"
    /\ pump = "recv"
    /\ NoAppendAnywhere

\* server-side turn detection is configured in the session of the request
TurnDetectionConfigured ==
    /\ IsSome(req.session)
    /\ IsSome(Unwrap(req.session)["turn_detection"])
    /\ Unwrap(Unwrap(req.session)["turn_detection"]).kind = Some("ServerVad")

\* C27: with server-side turn detection configured in the session, the
\* capture pipeline never enqueues a commit event: every event the
\* forwarding task sends into the outbound pump is an AppendAudioInput, and
\* no input_audio_buffer.commit frame reaches the wire.
C27_PipelineNeverCommits ==
    /\ [](TurnDetectionConfigured)
    /\ [](IsSome(sending["fwd"])
            => Unwrap(sending["fwd"]).data.variant = "AppendAudioInput")
    /\ [][(fwd = "send" /\ Len(accepted') > Len(accepted))
            => accepted'[Len(accepted')].data.variant = "AppendAudioInput"
          ]_vars
    /\ [](\A i \in 1..Len(accepted) :
             accepted[i].data.variant # "CommitAudioInputBuffer")
    /\ [](\A i \in 1..Len(wire) :
             Unwrap(wire[i].json).v["type"]
                # JStr("input_audio_buffer.commit"))

C27_Witness ==
    /\ TurnDetectionConfigured
    /\ Len(wire) = 2
    /\ "turn_detection" \in DOMAIN Unwrap(wire[1].json).v["session"].v
    /\ IsAppendFrame(wire[2])
    /\ accepted[2].data.variant = "AppendAudioInput"

-----------------------------------------------------------------------------
(* Claims about the autonomous agent *)

-----------------------------------------------------------------------------
(* Claims about prompt templates *)

\* what a piece of a template stands for under the context ctx
PieceRendered(piece, ctx) ==
    IF piece \in PlaceholderPieces THEN ctx[PlaceholderName[piece]]
    ELSE piece

\* the templates made of text and of expressions whose variables are set
SetPieces ==
    TextPieces \cup {piece \in PlaceholderPieces :
                        PlaceholderName[piece] \in DOMAIN variables}

\* C29: rendering a PromptTemplate after with_variable(k, v) replaces every
\* {{k}} placeholder by v and leaves the rest of the template text
\* unchanged: 'Hello, {{user}}!' with user = world renders 'Hello, world!'.
C29_RenderReplacesPlaceholders ==
    IsSome(rendered) =>
       /\ \A segs \in BoundedSeq(SetPieces, MaxSegments) :
             template = Flatten(segs) =>
                rendered = Some(RenderOk(Flatten(
                   [i \in DOMAIN segs |-> PieceRendered(segs[i], variables)])))
       /\ (/\ template = StrHello \o OpenTag \o StrUser \o CloseTag \o <<"!">>
           /\ StrUser \in DOMAIN variables
           /\ variables[StrUser] = StrWorld)
             => rendered = Some(RenderOk(StrHello \o StrWorld \o <<"!">>))

C29_Witness ==
    /\ template = StrHello \o OpenTag \o StrUser \o CloseTag \o <<"!">>
    /\ DOMAIN variables = {StrUser}
    /\ variables[StrUser] = StrWorld
    /\ rendered = Some(RenderOk(<<"H", "e", "l", "l", "o", ",", " ",
                                  "w", "o", "r", "l", "d", "!">>))

-----------------------------------------------------------------------------
(* Claims about the size of the playback jitter buffer *)

\* the last n elements of q, all of q when it has fewer
LastN(q, n) == IF Len(q) <= n THEN q ELSE SubSeq(q, Len(q) - n + 1, Len(q))

\* C30: the number of samples held in the playback jitter buffer never
\* exceeds a fixed bound: when appending an AudioDelta would exceed it, the
\* oldest samples are dropped, so the buffer stays bounded when the
\* consumer is stalled.
C30_JitterBufferBounded ==
    /\ [](Len(buffer) <= JitterCapacity)
    /\ [][(lock = "writer" /\ lock' = "free"
             /\ Len(buffer) + Len(Unwrap(wsamples)) > JitterCapacity)
            => buffer' = LastN(buffer \o Unwrap(wsamples), JitterCapacity)
          ]_vars


-----------------------------------------------------------------------------
(* Claims about the order of the captured audio *)

\* the audio of the AppendAudioInput events of q, in order
AudioOfEvents(q) ==
    LET appends == SelectSeq(q, LAMBDA e : e.data.variant = "AppendAudioInput")
    IN  [i \in DOMAIN appends |-> appends[i].data.audio]

\* the audio of the input_audio_buffer.append frames of w, in order
AudioOfFrames(w) ==
    LET appends == SelectSeq(w, IsAppendFrame)
    IN  [i \in DOMAIN appends |-> Unwrap(appends[i].json).v["audio"].v]

\* the captured audio that is somewhere between the callback and the
\* server, the oldest first
AudioOnTheWay ==
    AudioOfFrames(wire) \o AudioOfEvents(inflight \o queue \o sending["fwd"])
       \o chunks \o wchunk \o [i \in DOMAIN handoff |-> EncodeChunk(handoff[i])]

\* a is b with some of its elements left out
RECURSIVE IsSubsequence(_, _)
IsSubsequence(a, b) ==
    IF a = <<>> THEN TRUE
    ELSE IF b = <<>> THEN FALSE
    ELSE IF Head(a) = Head(b) THEN IsSubsequence(Tail(a), Tail(b))
    ELSE IsSubsequence(a, Tail(b))

\* C31: captured audio reaches the wire in capture order: through handoff,
\* worker, chunk channel, forwarding task, queue and pump the chunks are
\* neither reordered nor duplicated, so the append frames on the wire, and
\* the chunks still on their way behind them, are the captured chunks in the
\* order the callback produced them with some left out, also when the
\* caller's own events are interleaved on the same channel.
C31_CaptureOrderKept ==
    IsSubsequence(AudioOnTheWay,
                  [i \in DOMAIN captured |-> EncodeChunk(captured[i])])

C31_Witness ==
    /\ Len(wire) = 4
    /\ IsAppendFrame(wire[2])
    /\ ~IsAppendFrame(wire[3])
    /\ IsAppendFrame(wire[4])
    /\ wire[2] # wire[4]
    /\ Len(captured) = 2


-----------------------------------------------------------------------------
(* Claims about what AutonomousAgent::run does with its history *)

-----------------------------------------------------------------------------
(* Claims about the semantic router *)

\* the store gave a result whose score is at least the threshold
RouteFound ==
    /\ store.is = "Ok"
    /\ store.v # <<>>
    /\ store.v[1].score >= routeThreshold

-----------------------------------------------------------------------------
(* Claims about TokenOutputStream *)

\* the step is a call of the method named call
StreamCalled(call) ==
    /\ ncalls' = ncalls + 1
    /\ Unwrap(streamOut').call = call

\* the two indices are in order and within the tokens, and clear empties
\* the stream
IndicesInOrder ==
    /\ [](/\ 0 <= prev_index
          /\ prev_index <= current_index
          /\ current_index <= Len(tokens))
    /\ [][StreamCalled("clear")
            => (tokens' = <<>> /\ prev_index' = 0 /\ current_index' = 0)
         ]_vars

\* C37 as stated: after any sequence of next_token and clear calls
\* 0 <= prev_index <= current_index <= tokens.len(); every call of
\* next_token appends exactly one token, and clear leaves the stream empty
\* with both indices 0.
C37_NextTokenAlwaysAppends ==
    /\ IndicesInOrder
    /\ [][StreamCalled("next_token")
            => tokens' = Append(tokens, Unwrap(streamOut').token)
         ]_vars

\* C37 amended: after any sequence of next_token and clear calls
\* 0 <= prev_index <= current_index <= tokens.len(); a call of next_token
\* that returns Ok has appended exactly its token, a call that returns Err
\* has appended its token or, when the previous text failed to decode, has
\* left the stream as it was; clear leaves the stream empty with both
\* indices 0.
C37_NextTokenAppendsUnlessPrevTextFails ==
    /\ IndicesInOrder
    /\ [][StreamCalled("next_token")
            => \/ tokens' = Append(tokens, Unwrap(streamOut').token)
               \/ /\ Unwrap(streamOut').result.is = "Err"
                  /\ UNCHANGED <<tokens, prev_index, current_index>>
         ]_vars

C37_Witness ==
    /\ ncalls = 3
    /\ tokens = <<1, 2>>
    /\ prev_index = 0
    /\ current_index = 1
    /\ streamOut = Some([call |-> "next_token", token |-> 3,
                         result |-> Err("cannot decode")])


-----------------------------------------------------------------------------
(* Claims about TextGeneration::run *)

\* the text of the sampled tokens q as next_token gives it when no decode
\* fails: the end-of-sequence token has none
TextOf(q) == Decode(SelectSeq(q, LAMBDA t : t # EosToken))

\* C35: run samples at most sample_len tokens and stops right after the
\* end-of-sequence token, which adds nothing to the response text; the
\* token_usage it reports is the number of tokens it sampled, when it
\* stopped on end-of-sequence and when it stopped at sample_len.
C35_TokenUsageCountsSampled ==
    /\ Len(sampled) <= sample_len
    /\ \A i \in DOMAIN sampled : sampled[i] = EosToken => i = Len(sampled)
    /\ gen = "returned" =>
          /\ Len(Unwrap(response).response) <= Len(TextOf(sampled))
          /\ Unwrap(response).token_usage = Len(sampled)


-----------------------------------------------------------------------------
(* Claims about the ElevenLabs request *)

\* the voice setting f as the additional_params p give it
SettingGiven(p, f) ==
    IF /\ "voice_settings" \in DOMAIN p.v
       /\ p.v["voice_settings"].t = "obj"
       /\ f \in DOMAIN p.v["voice_settings"].v
       /\ p.v["voice_settings"].v[f].t # "null"
      THEN Some(p.v["voice_settings"].v[f].v)
      ELSE None

\* C36: a request without additional_params fails to convert with a
\* ProviderError and audio_generation sends no HTTP request for it; with
\* additional_params, the voice_settings of the converted request have the
\* speed of the request, whatever speed the params carry, and the other
\* voice settings as the params give them.
C36_SpeedFromRequest ==
    IsSome(ttsResult) =>
       LET request == Unwrap(ttsRequest)
       IN  /\ request.additional_params = None =>
                 (ttsResult = Some(Err("ProviderError")) /\ posts = <<>>)
           /\ \A i \in DOMAIN posts :
                 LET settings == Unwrap(posts[i].params.voice_settings)
                 IN  /\ IsSome(request.additional_params)
                     /\ settings["speed"] = Some(request.speed)
                     /\ \A f \in VoiceSettingFields \ {"speed"} :
                           settings[f] =
                              SettingGiven(Unwrap(request.additional_params),
                                           f)

C36_Witness ==
    /\ Len(posts) = 1
    /\ ttsResult = Some(Ok("bytes"))
    /\ Unwrap(ttsRequest).speed = 12
    /\ SettingGiven(Unwrap(Unwrap(ttsRequest).additional_params), "speed")
          = Some(9)
    /\ Unwrap(posts[1].params.voice_settings) =
          [VoiceSettingsDefault EXCEPT !["speed"] = Some(12),
                                       !["stability"] = Some(5),
                                       !["use_speaker_boost"] = Some(TRUE)]

=============================================================================
